---- MODULE Spec2Model ----
(***************************************************************************)
(* Model of the isomorphic translation system of src/streamlit_app.py:     *)
(* the glossary (Glosario), the per-sentence orchestrator (Core), the      *)
(* resolvers, the command processor (ProcesadorComandos) and the session   *)
(* object (SistemaTraduccion).                                             *)
(*                                                                         *)
(* Conventions.  Python None is the value None below; a Python dict keyed  *)
(* by token is a TLA+ function whose DOMAIN is the key set; a Python list  *)
(* is a sequence.  Positions are the 0-based positions of the code; the    *)
(* cell at position p is element p+1 of the sequence of cells.  A text is  *)
(* given as Tokenizador leaves it: a sequence of sentences, each one the   *)
(* sequence of its tokens.  Non-ASCII letters of command names are written *)
(* in ASCII (ANADE stands for the command spelled with N-tilde).           *)
(***************************************************************************)
EXTENDS Integers, Sequences, FiniteSets, TLC

VARIABLES
    glosarios,      \* the Glosario objects: 1 is the one built first, 2 the one built by a restart
    estados,        \* the EstadoProceso objects, indexed like glosarios
    sis,            \* which objects SistemaTraduccion.glosario / .estado / core.glosario refer to
    confirmacion,   \* ProcesadorComandos._confirmacion: None or the pending action
    ultimo,         \* the last call made on the system and what it returned
    pasos,          \* the number of calls made in a command session
    sello,          \* history: per glossary object and core token, the target it was ASSIGNED with
    p6,             \* ProcesadorNucleos.p6: the difficult-case resolver the core resolver calls
    glosario_db,    \* src/app.py: st.session_state['glosario_db'], the glossary of GestorGlosario
    ctx_actual      \* src/app.py: the matriz_tokens of st.session_state['ctx_actual'], <<>> if none

vars == <<glosarios, estados, sis, confirmacion, ultimo, pasos, sello, p6, glosario_db, ctx_actual>>

----------------------------------------------------------------------------
(* Bounds of the model *)

MaxOcc == 2
MaxLoc == 2
MaxPasos == 5

----------------------------------------------------------------------------
(* Values *)

None == "<None>"

PENDIENTE == "PENDIENTE"
ASIGNADO == "ASIGNADO"
BLOQUEADO == "BLOQUEADO"

NUCLEO == "NUCLEO"
PARTICULA == "PARTICULA"

FORZADO_USUARIO == "FORZADO_USUARIO"
AUTO_NEOLOGISMO == "AUTO_NEOLOGISMO"
ABSORBIDO_TXT == "[ABSORBIDO]"

\* Python truthiness of an Optional[str]
Verdadero(x) == x # None /\ x # ""

\* The tokens that occur in texts
Tokens == {"kitab", "Kitab", "nafs", "wa", "Wa", "huwa"}

\* str.lower() on the words of the model
Lower(w) ==
    CASE w = "Kitab" -> "kitab"
      [] w = "Wa" -> "wa"
      [] w = "Nafs" -> "nafs"
      [] w = " Nafs" -> " nafs"
      [] w = "Alma" -> "alma"
      [] w = "SI" -> "si"
      [] w = "Yes" -> "yes"
      [] w = "GLOSARIO" -> "glosario"
      [] w = "LOCUCIONES" -> "locuciones"
      [] w = "ACTUALIZA" -> "actualiza"
      [] w = "ANADE" -> "anade"
      [] w = "ANADE_LOCUCION" -> "anade_locucion"
      [] w = "ELIMINA" -> "elimina"
      [] w = "PAUSA" -> "pausa"
      [] w = "CONTINUAR" -> "continuar"
      [] w = "REINICIAR" -> "reiniciar"
      [] w = "AYUDA" -> "ayuda"
      [] w = "ESTADO" -> "estado"
      [] w = "EXPORTAR_GLOSARIO" -> "exportar_glosario"
      [] w = "G" -> "g"
      [] w = "Y" -> "y"
      [] w = "NO" -> "no"
      [] OTHER -> w

\* str.strip() on the words of the model
Strip(w) ==
    CASE w = " Nafs" -> "Nafs"
      [] w = " nafs" -> "nafs"
      [] w = "alma " -> "alma"
      [] OTHER -> w

\* str.upper() on the words of the model
Upper(w) ==
    CASE w = "si" -> "SI"
      [] w = "Yes" -> "YES"
      [] w = "y" -> "Y"
      [] w = "no" -> "NO"
      [] w = "g" -> "G"
      [] w = "actualiza" -> "ACTUALIZA"
      [] w = "elimina" -> "ELIMINA"
      [] w = "kitab" -> "KITAB"
      [] OTHER -> w

----------------------------------------------------------------------------
(* ClasificadorGramatical *)

\* the closed sets of the classifier (the prepositions written with non-ASCII letters are left out)
PREPOSICIONES == {"bi", "li", "fi", "min", "bayna"}
CONJUNCIONES == {"wa", "fa", "aw", "inna", "anna"}
PRONOMBRES == {"huwa", "hiya", "hum", "anta", "ana"}

Clasificar(token) ==
    LET t == Lower(token) IN
    IF t \in PREPOSICIONES THEN PARTICULA
    ELSE IF t \in CONJUNCIONES THEN PARTICULA
    ELSE IF t \in PRONOMBRES THEN PARTICULA
    ELSE NUCLEO

----------------------------------------------------------------------------
(* Glosario *)

EntradaGlosario(cat, tgt, st, ocs) ==
    [categoria |-> cat, token_tgt |-> tgt, status |-> st, margen |-> 0,
     ocurrencias |-> ocs, etiqueta |-> None]

GlosarioNuevo == [entradas |-> <<>>, locuciones |-> <<>>, loc_counter |-> 0]

Poner(d, k, v) == [x \in DOMAIN d \cup {k} |-> IF x = k THEN v ELSE d[x]]
Quitar(d, k) == [x \in DOMAIN d \ {k} |-> d[x]]

\* one step of the registration loop: the token at index idx of the batch
\* variant: a token met again gets a fresh entry
RegistrarUno_Reemplaza(ents, token, idx) ==
    Poner(ents, token, EntradaGlosario(Clasificar(token), None, PENDIENTE, <<idx>>))

RegistrarUno(ents, token, idx) ==
    IF token \notin DOMAIN ents
    THEN Poner(ents, token, EntradaGlosario(Clasificar(token), None, PENDIENTE, <<idx>>))
    ELSE [ents EXCEPT ![token].ocurrencias = Append(@, idx)]

RECURSIVE RegistrarDesde(_, _, _)
RegistrarDesde(ents, lote, i) ==
    IF i > Len(lote) THEN ents
    ELSE RegistrarDesde(RegistrarUno(ents, lote[i], i - 1), lote, i + 1)

\* Glosario.fase_a_procesar: lote is the list of the tokens of the text
FaseAProcesar(g, lote) == [g EXCEPT !.entradas = RegistrarDesde(g.entradas, lote, 1)]

\* the condition under which fase_b_asignar reaches its synonymy branch, whose body is "pass"
ConflictoSinonimia(e, tgt) ==
    /\ e.categoria = NUCLEO
    /\ Verdadero(e.token_tgt)
    /\ e.token_tgt # tgt
    /\ e.etiqueta # FORZADO_USUARIO

\* variant: a stored target in conflict is kept
AsignarEntrada_SinSobrescribir(e, tgt, etiqueta) ==
    [e EXCEPT !.token_tgt = IF ConflictoSinonimia(e, tgt) THEN @ ELSE tgt,
              !.status = ASIGNADO, !.margen = 1, !.etiqueta = etiqueta]

AsignarEntrada(e, tgt, etiqueta) ==
    [e EXCEPT !.token_tgt = tgt, !.status = ASIGNADO, !.margen = 1, !.etiqueta = etiqueta]

\* Glosario.fase_b_asignar (margen has its default 1): the glossary after, and the value returned
FaseBAsignar(g, token, tgt, etiqueta) ==
    IF token \notin DOMAIN g.entradas
    THEN [g |-> g, ret |-> FALSE]
    ELSE [g |-> [g EXCEPT !.entradas[token] = AsignarEntrada(@, tgt, etiqueta)],
          ret |-> TRUE]

\* Glosario.obtener_entrada returns the entry or None: HayEntrada tells which
HayEntrada(g, token) == token \in DOMAIN g.entradas
ObtenerEntrada(g, token) == g.entradas[token]

\* Glosario.fase_b_verificar_existencia: the exception raised, or None for the return of True
TokenNoRegistradoError == "TokenNoRegistradoError"
FaseBVerificarExistencia(g, token) ==
    IF token \notin DOMAIN g.entradas THEN TokenNoRegistradoError ELSE None

ObtenerTraduccion(g, token) ==
    IF token \in DOMAIN g.entradas THEN g.entradas[token].token_tgt ELSE None

\* variant: the target of a BLOQUEADO entry is kept
ActualizarEntrada_RespetaBloqueo(g, token, nueva) ==
    IF token \notin DOMAIN g.entradas
    THEN [g |-> g, ok |-> FALSE, n |-> 0]
    ELSE [g |-> [g EXCEPT !.entradas[token].token_tgt =
                               IF g.entradas[token].status = BLOQUEADO THEN @ ELSE nueva,
                          !.entradas[token].etiqueta = FORZADO_USUARIO],
          ok |-> TRUE,
          n |-> Len(g.entradas[token].ocurrencias)]

ActualizarEntrada(g, token, nueva) ==
    IF token \notin DOMAIN g.entradas
    THEN [g |-> g, ok |-> FALSE, n |-> 0]
    ELSE [g |-> [g EXCEPT !.entradas[token].token_tgt = nueva,
                          !.entradas[token].etiqueta = FORZADO_USUARIO],
          ok |-> TRUE,
          n |-> Len(g.entradas[token].ocurrencias)]

\* variant: an entry that exists is replaced
AgregarEntrada_Reemplaza(g, token, categoria, tgt) ==
    [g |-> [g EXCEPT !.entradas =
               Poner(@, token, EntradaGlosario(categoria, tgt,
                                               IF Verdadero(tgt) THEN ASIGNADO ELSE PENDIENTE, <<>>))],
     ok |-> TRUE]

AgregarEntrada(g, token, categoria, tgt) ==
    IF token \in DOMAIN g.entradas
    THEN [g |-> g, ok |-> FALSE]
    ELSE [g |-> [g EXCEPT !.entradas =
                    Poner(@, token, EntradaGlosario(categoria, tgt,
                                        IF Verdadero(tgt) THEN ASIGNADO ELSE PENDIENTE, <<>>))],
          ok |-> TRUE]

\* variant: the count is returned, the entry stays
EliminarEntrada_SinBorrar(g, token) ==
    IF token \notin DOMAIN g.entradas
    THEN [g |-> g, ok |-> FALSE, n |-> 0]
    ELSE [g |-> g, ok |-> TRUE, n |-> Len(g.entradas[token].ocurrencias)]

EliminarEntrada(g, token) ==
    IF token \in DOMAIN g.entradas
    THEN [g |-> [g EXCEPT !.entradas = Quitar(@, token)],
          ok |-> TRUE,
          n |-> Len(g.entradas[token].ocurrencias)]
    ELSE [g |-> g, ok |-> FALSE, n |-> 0]

Locucion(id, src, componentes, posiciones, tgt) ==
    [id |-> id, src |-> src, componentes |-> componentes, posiciones |-> posiciones, tgt |-> tgt]

Rango(s) == {s[i] : i \in DOMAIN s}

\* variant: a blocked component gets a fresh entry
BloquearComponentes_Reinicia(ents, componentes) ==
    [k \in DOMAIN ents |->
        IF k \in Rango(componentes)
        THEN EntradaGlosario(ents[k].categoria, None, BLOQUEADO, <<>>)
        ELSE ents[k]]

BloquearComponentes(ents, componentes) ==
    [k \in DOMAIN ents |->
        IF k \in Rango(componentes) THEN [ents[k] EXCEPT !.status = BLOQUEADO] ELSE ents[k]]

\* self._locuciones[loc.id] = loc: the dict keeps the order in which its keys were first set
PonerLocucion(locs, l) ==
    IF \E j \in DOMAIN locs : locs[j].id = l.id
    THEN [j \in DOMAIN locs |-> IF locs[j].id = l.id THEN l ELSE locs[j]]
    ELSE Append(locs, l)

\* variant: the counter is left as it was
AgregarLocucion_SinContar(g, src, componentes, posiciones, tgt) ==
    LET n == IF g.loc_counter = 0 THEN 1 ELSE g.loc_counter IN
    [loc_counter |-> n,
     locuciones |-> PonerLocucion(g.locuciones, Locucion(n, src, componentes, posiciones, tgt)),
     entradas |-> BloquearComponentes(g.entradas, componentes)]

\* Glosario.agregar_locucion; the identifier LOC_000n is the number n
AgregarLocucion(g, src, componentes, posiciones, tgt) ==
    LET n == g.loc_counter + 1 IN
    [loc_counter |-> n,
     locuciones |-> PonerLocucion(g.locuciones, Locucion(n, src, componentes, posiciones, tgt)),
     entradas |-> BloquearComponentes(g.entradas, componentes)]

----------------------------------------------------------------------------
(* MatrizFuente *)

SlotNuevo(clase, token, pos) ==
    [clase |-> clase, token_src |-> token, pos_index |-> pos, status |-> PENDIENTE,
     token_tgt |-> None, locucion_id |-> 0]

\* the cells and slots SistemaTraduccion.traducir builds for the tokens of one sentence
MatrizFuenteDe(tokens) ==
    [celdas |-> [i \in 1..Len(tokens) |->
                    [pos |-> i - 1, token_src |-> tokens[i],
                     slot |-> SlotNuevo(IF Clasificar(tokens[i]) = NUCLEO THEN "N" ELSE "P",
                                        tokens[i], i - 1)]],
     locuciones |-> <<>>]

Bloquear(slot, loc_id) == [slot EXCEPT !.status = BLOQUEADO, !.locucion_id = loc_id]

\* variant: only the slot at the first position listed is blocked
MatrizAgregarLocucion_SoloPrimera(m, l) ==
    [celdas |-> [i \in DOMAIN m.celdas |->
                    IF l.posiciones # <<>> /\ (i - 1) = l.posiciones[1]
                    THEN [m.celdas[i] EXCEPT !.slot = Bloquear(@, l.id)]
                    ELSE m.celdas[i]],
     locuciones |-> Append(m.locuciones, l)]

\* MatrizFuente.agregar_locucion
MatrizAgregarLocucion(m, l) ==
    [celdas |-> [i \in DOMAIN m.celdas |->
                    IF (i - 1) \in Rango(l.posiciones)
                    THEN [m.celdas[i] EXCEPT !.slot = Bloquear(@, l.id)]
                    ELSE m.celdas[i]],
     locuciones |-> Append(m.locuciones, l)]

\* stands for the None that obtener_locucion_en_pos returns (identifiers start at 1)
NoLocucion == Locucion(0, "", <<>>, <<>>, None)

\* MatrizFuente.obtener_locucion_en_pos: the first locution, in insertion order, that holds pos
ObtenerLocucionEnPos(m, pos) ==
    LET cand == {j \in DOMAIN m.locuciones : pos \in Rango(m.locuciones[j].posiciones)} IN
    IF cand = {} THEN NoLocucion
    ELSE m.locuciones[CHOOSE j \in cand : \A k \in cand : j <= k]

\* Locucion.primera_posicion
\* variant: the last position
PrimeraPosicion_Ultima(l) ==
    IF l.posiciones = <<>> THEN -1
    ELSE CHOOSE p \in Rango(l.posiciones) : \A q \in Rango(l.posiciones) : p >= q

PrimeraPosicion(l) ==
    IF l.posiciones = <<>> THEN -1
    ELSE CHOOSE p \in Rango(l.posiciones) : \A q \in Rango(l.posiciones) : p <= q

----------------------------------------------------------------------------
(* MatrizTarget *)

CeldaTarget(pos) == [pos |-> pos, token_src |-> "", token_tgt |-> None, tipo |-> "normal"]

\* variant: one cell more than asked for
MatrizTarget_UnaDeMas(size) ==
    [size |-> size, celdas |-> [i \in 1..(size + 1) |-> CeldaTarget(i - 1)]]

MatrizTarget(size) == [size |-> size, celdas |-> [i \in 1..size |-> CeldaTarget(i - 1)]]

MarcarAbsorbido(celda) == [celda EXCEPT !.tipo = "absorbido", !.token_tgt = ABSORBIDO_TXT]

----------------------------------------------------------------------------
(* Transliteration and neologisms *)

\* SistemaTransliteracion.transliterar: every character outside the Arabic table is kept,
\* so the Latin-script tokens of the model are mapped to themselves; "ar:ktb" stands for the
\* word written with the Arabic letters kaf, ta, ba
Transliterar(texto) == IF texto = "ar:ktb" THEN "ktb" ELSE texto

\* GeneradorNeologismos.radical (tokens hold no "-", so rstrip("-") removes nothing)
Radical(token) == Transliterar(token) \o "-ado"

----------------------------------------------------------------------------
(* Resolvers *)

\* what ProcesadorNucleos.p6 can refer to: the ProcesadorCasosDificiles of the file, or an
\* object given to set_procesador_casos_dificiles whose procesar raises
ProcesadorCasosDificiles == "ProcesadorCasosDificiles"
ProcesadorQueFalla == "ProcesadorQueFalla"

\* ProcesadorCasosDificiles.procesar with reason NO_ROOT
CasoDificilNoRoot(token) == [n_base |-> Radical(token), exito |-> TRUE]

\* ProcesadorCasosDificiles.procesar, whatever the reason, a member of Reason written by its
\* name (candidatos is not read)
ProcesarCasoDificil(token, reason, candidatos) ==
    [n_base |-> IF reason = "NO_ROOT" THEN Radical(token)
                ELSE IF reason = "IDIOM" THEN Transliterar(token)
                ELSE token,
     reason |-> reason, exito |-> TRUE]

\* ProcesadorNucleos.etimologia
etimologia == [k \in {"kitab", "qalb", "aql", "ilm"} |->
                 CASE k = "kitab" -> "libro"
                   [] k = "qalb" -> "corazon"
                   [] k = "aql" -> "intelecto"
                   [] k = "ilm" -> "ciencia"]

\* variant: the lexicon is asked before the glossary
ProcesarNucleo_LexicoPrimero(slot, g) ==
    LET token == Lower(slot.token_src)
    IN  IF token \in DOMAIN etimologia
        THEN [token_tgt |-> etimologia[token], restart |-> FALSE, via |-> "etimologia"]
        ELSE IF HayEntrada(g, slot.token_src) /\ ObtenerEntrada(g, slot.token_src).status = ASIGNADO
        THEN [token_tgt |-> ObtenerEntrada(g, slot.token_src).token_tgt, restart |-> FALSE, via |-> "cache"]
        ELSE [token_tgt |-> CasoDificilNoRoot(slot.token_src).n_base, restart |-> TRUE,
              via |-> "no_root"]

\* ProcesadorNucleos.procesar
ProcesarNucleo(slot, g) ==
    LET token == Lower(slot.token_src)
    IN  IF HayEntrada(g, slot.token_src) /\ ObtenerEntrada(g, slot.token_src).status = ASIGNADO
        THEN [token_tgt |-> ObtenerEntrada(g, slot.token_src).token_tgt, restart |-> FALSE, via |-> "cache"]
        ELSE IF token \in DOMAIN etimologia
        THEN [token_tgt |-> etimologia[token], restart |-> FALSE, via |-> "etimologia"]
        ELSE [token_tgt |-> CasoDificilNoRoot(slot.token_src).n_base, restart |-> TRUE,
              via |-> "no_root"]

\* ProcesadorParticulas.procesar
dic_particulas == [k \in {"wa", "fi", "min", "ala", "bi", "al"} |->
                     CASE k = "wa" -> "y"
                       [] k = "fi" -> "en"
                       [] k = "min" -> "de"
                       [] k = "ala" -> "sobre"
                       [] k = "bi" -> "con"
                       [] k = "al" -> "el"]

\* variant: the table is looked up with the token as written
ProcesarParticula_SinMinusculas(slot) ==
    LET k == slot.token_src IN
    [candidatos |-> << IF k \in DOMAIN dic_particulas THEN dic_particulas[k] ELSE slot.token_src >>]

ProcesarParticula(slot) ==
    LET k == Lower(slot.token_src) IN
    [candidatos |-> << IF k \in DOMAIN dic_particulas THEN dic_particulas[k] ELSE slot.token_src >>]

----------------------------------------------------------------------------
(* Core *)

\* what is recorded of the handling of one core slot: the entry before, the resolver's
\* answer, the entry after
Huella(slot, antes, res, despues) ==
    [pos |-> slot.pos_index, token |-> slot.token_src, via |-> res.via,
     token_tgt |-> res.token_tgt, restart |-> res.restart,
     habia |-> HayEntrada(antes, slot.token_src),
     antes |-> IF HayEntrada(antes, slot.token_src) THEN ObtenerEntrada(antes, slot.token_src)
               ELSE EntradaGlosario(None, None, None, <<>>),
     despues |-> IF HayEntrada(despues, slot.token_src) THEN ObtenerEntrada(despues, slot.token_src)
                 ELSE EntradaGlosario(None, None, None, <<>>),
     resto_igual |-> \A k \in DOMAIN antes.entradas \cup DOMAIN despues.entradas :
                        k # slot.token_src =>
                            /\ k \in DOMAIN antes.entradas /\ k \in DOMAIN despues.entradas
                            /\ antes.entradas[k] = despues.entradas[k]]

\* variant: the neologism is not written to the glossary
F2Slot_SinRegistro(c, i) ==
    LET slot == c.mtx_s.celdas[i].slot IN
    IF slot.status = BLOQUEADO
    THEN [c EXCEPT !.mtx_t.celdas[i].tipo = "locucion"]
    ELSE LET res == ProcesarNucleo(slot, c.g)
         IN  [c EXCEPT !.mtx_s.celdas[i].slot.token_tgt = res.token_tgt,
                       !.huellas = Append(@, Huella(slot, c.g, res, c.g))]

\* F2, one core slot (procesar_oracion, the body of the loop over slots_n)
F2Slot(c, i) ==
    LET slot == c.mtx_s.celdas[i].slot IN
    IF slot.status = BLOQUEADO
    THEN [c EXCEPT !.mtx_t.celdas[i].tipo = "locucion"]
    ELSE LET res == ProcesarNucleo(slot, c.g)
             g2 == IF res.restart
                   THEN FaseBAsignar(c.g, slot.token_src, res.token_tgt, AUTO_NEOLOGISMO).g
                   ELSE c.g
         IN  [c EXCEPT !.g = g2,
                       !.mtx_s.celdas[i].slot.token_tgt = res.token_tgt,
                       !.huellas = Append(@, Huella(slot, c.g, res, g2))]

RECURSIVE F2Nucleos(_, _)
F2Nucleos(c, i) ==
    IF i > Len(c.mtx_s.celdas) THEN c
    ELSE IF c.mtx_s.celdas[i].slot.clase = "N" THEN F2Nucleos(F2Slot(c, i), i + 1)
    ELSE F2Nucleos(c, i + 1)

\* F3, one cell (the body of the loop over mtx_s.celdas)
F3Celda(mtx_s, celda_t, i) ==
    LET celda_s == mtx_s.celdas[i]
        loc == ObtenerLocucionEnPos(mtx_s, i - 1)
        c1 == [celda_t EXCEPT !.token_src = celda_s.token_src]
    IN  IF loc # NoLocucion
        THEN IF i - 1 = PrimeraPosicion(loc)
             THEN [c1 EXCEPT !.token_tgt = loc.tgt, !.tipo = "locucion"]
             ELSE MarcarAbsorbido(c1)
        ELSE IF celda_s.slot.clase = "N"
             THEN [c1 EXCEPT !.token_tgt = celda_s.slot.token_tgt]
             ELSE c1

F3Mapeo(mtx_s, mtx_t) ==
    [mtx_t EXCEPT !.celdas = [i \in DOMAIN mtx_t.celdas |->
                                IF i \in DOMAIN mtx_s.celdas THEN F3Celda(mtx_s, mtx_t.celdas[i], i)
                                ELSE mtx_t.celdas[i]]]

\* F4, one cell (the body of the loop over slots_p)
F4Celda(mtx_s, celda_t, i) ==
    LET slot == mtx_s.celdas[i].slot IN
    IF slot.clase = "P" /\ slot.status # BLOQUEADO
    THEN [celda_t EXCEPT !.token_tgt = ProcesarParticula(slot).candidatos[1]]
    ELSE celda_t

F4Particulas(mtx_s, mtx_t) ==
    [mtx_t EXCEPT !.celdas = [i \in DOMAIN mtx_t.celdas |->
                                IF i \in DOMAIN mtx_s.celdas THEN F4Celda(mtx_s, mtx_t.celdas[i], i)
                                ELSE mtx_t.celdas[i]]]

\* Core.procesar_oracion: the matrices and the glossary after; asignada is the target matrix
\* as allocated
ProcesarOracion(mtx_s, g) ==
    LET asignada == MatrizTarget(Len(mtx_s.celdas))
        c2 == F2Nucleos([mtx_s |-> mtx_s, mtx_t |-> asignada, g |-> g, huellas |-> <<>>], 1)
        t3 == F3Mapeo(c2.mtx_s, c2.mtx_t)
        t4 == F4Particulas(c2.mtx_s, t3)
    IN  [mtx_s |-> c2.mtx_s, mtx_t |-> t4, g |-> c2.g, huellas |-> c2.huellas,
         size_inicial |-> Len(asignada.celdas)]

Corchetes(token) == "[" \o token \o "]"

\* the item serializar_resultado emits for a cell
Item(c) == IF Verdadero(c.token_tgt) THEN c.token_tgt ELSE Corchetes(c.token_src)

NoAbsorbido(c) == c.tipo # "absorbido"

\* variant: every cell is emitted
SerializarResultado_Todas(mtx_t) ==
    [i \in DOMAIN mtx_t.celdas |-> Item(mtx_t.celdas[i])]

\* Core.serializar_resultado: the list that is joined with blanks
SerializarResultado(mtx_t) ==
    LET vivas == SelectSeq(mtx_t.celdas, NoAbsorbido) IN
    [i \in DOMAIN vivas |-> Item(vivas[i])]

----------------------------------------------------------------------------
(* SistemaTraduccion.traducir *)

\* "a in b", "b.endswith(a)" and "b.startswith(a)" on the tokens of the model
Subcadena(a, b) == a = b \/ (a = "wa" /\ b = "huwa")
Sufijo(a, b) == a = b \/ (a = "wa" /\ b = "huwa")
Prefijo(a, b) == a = b

\* "loc.src in o": src is the phrase as the sequence of its words, o the sentence as the
\* sequence of its tokens, both written with single blanks between words
Contiene(src, o) ==
    LET k == Len(src) IN
    IF k = 0 THEN TRUE
    ELSE IF k = 1 THEN \E i \in DOMAIN o : Subcadena(src[1], o[i])
    ELSE \E i \in 1..(Len(o) - k + 1) :
            /\ Sufijo(src[1], o[i])
            /\ Prefijo(src[k], o[i + k - 1])
            /\ \A j \in 2..(k - 1) : src[j] = o[i + j - 1]

\* the loop over glosario.obtener_locuciones().values()
RECURSIVE AdjuntarLocuciones(_, _, _, _)
AdjuntarLocuciones(m, locs, o, j) ==
    IF j > Len(locs) THEN m
    ELSE IF Contiene(locs[j].src, o)
         THEN AdjuntarLocuciones(MatrizAgregarLocucion(m, locs[j]), locs, o, j + 1)
         ELSE AdjuntarLocuciones(m, locs, o, j + 1)

RECURSIVE Aplanar(_)
Aplanar(oraciones) ==
    IF oraciones = <<>> THEN <<>> ELSE Head(oraciones) \o Aplanar(Tail(oraciones))

EstadoProceso == [oraciones_traducidas |-> 0, total_oraciones |-> 0, glosario_entradas |-> 0,
                  pausado |-> FALSE]

\* one turn of the loop over the sentences: r holds the glossary, the progress state and the
\* results so far
TraducirOracion(r, o, i) ==
    LET mtx_s == AdjuntarLocuciones(MatrizFuenteDe(o), r.g.locuciones, o, 1)
        res == ProcesarOracion(mtx_s, r.g)
    IN  [g |-> res.g,
         estado |-> [r.estado EXCEPT !.oraciones_traducidas = i],
         resultados |-> Append(r.resultados,
                           [tokens |-> o, mtx_s |-> res.mtx_s, mtx_t |-> res.mtx_t,
                            huellas |-> res.huellas, size_inicial |-> res.size_inicial,
                            salida |-> SerializarResultado(res.mtx_t)])]

RECURSIVE TraducirDesde(_, _, _)
TraducirDesde(r, oraciones, i) ==
    IF i > Len(oraciones) THEN r
    ELSE TraducirDesde(TraducirOracion(r, oraciones[i], i), oraciones, i + 1)

\* SistemaTraduccion.traducir when not paused: registration, then the sentences in order
Traducir(g, estado, oraciones) ==
    LET g1 == FaseAProcesar(g, Aplanar(oraciones))
        e1 == [estado EXCEPT !.total_oraciones = Len(oraciones),
                             !.glosario_entradas = Cardinality(DOMAIN g1.entradas)]
    IN  TraducirDesde([g |-> g1, estado |-> e1, resultados |-> <<>>], oraciones, 1)

\* the exception a call of p6.procesar raises when p6 is an object that fails; nothing
\* between that call and the caller of traducir catches it
ErrorDeResolutor == "Exception"
SinFallo == [oracion |-> 0, pos |-> 0, token |-> None]

\* ProcesadorNucleos.procesar reaches self.p6.procesar (step 3) for this slot
LlegaAP6(slot, g) == ProcesarNucleo(slot, g).via = "no_root"

\* F2, one core slot, p being ProcesadorNucleos.p6: c.excepcion is the exception that left
\* the loop, if any; the slots after it are not visited
F2SlotCon(p, c, i) ==
    LET slot == c.mtx_s.celdas[i].slot IN
    IF c.excepcion # None THEN c
    ELSE IF slot.status # BLOQUEADO /\ p = ProcesadorQueFalla /\ LlegaAP6(slot, c.g)
    THEN [c EXCEPT !.excepcion = ErrorDeResolutor, !.pos = slot.pos_index]
    ELSE F2Slot(c, i)

RECURSIVE F2NucleosCon(_, _, _)
F2NucleosCon(p, c, i) ==
    IF i > Len(c.mtx_s.celdas) THEN c
    ELSE IF c.mtx_s.celdas[i].slot.clase = "N" THEN F2NucleosCon(p, F2SlotCon(p, c, i), i + 1)
    ELSE F2NucleosCon(p, c, i + 1)

\* procesar_oracion after F2: the exception goes on to the caller, or F3 and F4 are done
TrasF2(c2) ==
    IF c2.excepcion # None THEN c2
    ELSE [c2 EXCEPT !.mtx_t = F4Particulas(c2.mtx_s, F3Mapeo(c2.mtx_s, c2.mtx_t))]

\* Core.procesar_oracion, p being ProcesadorNucleos.p6: the exception that leaves it, or None
\* and what it returns; g is the glossary after, with the writes made before the exception
ProcesarOracionCon(p, mtx_s, g) ==
    TrasF2(F2NucleosCon(p, [mtx_s |-> mtx_s, mtx_t |-> MatrizTarget(Len(mtx_s.celdas)), g |-> g,
                            huellas |-> <<>>, excepcion |-> None, pos |-> 0,
                            size_inicial |-> Len(MatrizTarget(Len(mtx_s.celdas)).celdas)], 1))

\* traducir after procesar_oracion, for sentence i: the exception goes on to the caller of
\* traducir, or the sentence is serialized and appended
TrasProcesarOracion(r, o, i, res) ==
    IF res.excepcion # None
    THEN [g |-> res.g,
          estado |-> [r.estado EXCEPT !.oraciones_traducidas = i],
          resultados |-> r.resultados,
          excepcion |-> res.excepcion,
          fallo |-> [oracion |-> i, pos |-> res.pos, token |-> o[res.pos + 1]]]
    ELSE [g |-> res.g,
          estado |-> [r.estado EXCEPT !.oraciones_traducidas = i],
          resultados |-> Append(r.resultados,
                            [tokens |-> o, mtx_s |-> res.mtx_s, mtx_t |-> res.mtx_t,
                             huellas |-> res.huellas, size_inicial |-> res.size_inicial,
                             salida |-> SerializarResultado(res.mtx_t)]),
          excepcion |-> None,
          fallo |-> SinFallo]

\* one turn of the loop of traducir over the sentences, p being ProcesadorNucleos.p6: once an
\* exception has left procesar_oracion no other sentence is processed
TraducirOracionCon(p, r, o, i) ==
    IF r.excepcion # None THEN r
    ELSE TrasProcesarOracion(r, o, i,
             ProcesarOracionCon(p, AdjuntarLocuciones(MatrizFuenteDe(o), r.g.locuciones, o, 1), r.g))

RECURSIVE TraducirDesdeCon(_, _, _, _)
TraducirDesdeCon(p, r, oraciones, i) ==
    IF i > Len(oraciones) THEN r
    ELSE TraducirDesdeCon(p, TraducirOracionCon(p, r, oraciones[i], i), oraciones, i + 1)

\* SistemaTraduccion.traducir when not paused, p being ProcesadorNucleos.p6: resultados are
\* the sentences that procesar_oracion returned for
TraducirCon(p, g, estado, oraciones) ==
    LET g1 == FaseAProcesar(g, Aplanar(oraciones))
        e1 == [estado EXCEPT !.total_oraciones = Len(oraciones),
                             !.glosario_entradas = Cardinality(DOMAIN g1.entradas)]
    IN  TraducirDesdeCon(p, [g |-> g1, estado |-> e1, resultados |-> <<>>, excepcion |-> None,
                             fallo |-> SinFallo], oraciones, 1)

----------------------------------------------------------------------------
(* ProcesadorComandos *)

NombresComandos == {"GLOSARIO", "LOCUCIONES", "ACTUALIZA", "ANADE", "ANADE_LOCUCION", "ELIMINA",
                    "PAUSA", "CONTINUAR", "REINICIAR", "AYUDA", "ESTADO", "EXPORTAR_GLOSARIO"}

\* the alias loop of procesar: the key a first word is mapped to
MapeoAlias(cab) ==
    LET cmd_raw == Upper(cab) IN
    IF cmd_raw \in NombresComandos THEN cmd_raw
    ELSE IF Lower(cmd_raw) = "g" THEN "GLOSARIO"
    ELSE IF Lower(cmd_raw) = "?" THEN "AYUDA"
    ELSE cmd_raw

RECURSIVE Unir(_)
Unir(ws) == IF ws = <<>> THEN ""
            ELSE IF Len(ws) = 1 THEN ws[1]
            ELSE ws[1] \o " " \o Unir(Tail(ws))

\* ResultadoComando; a message that shows data is its fixed part (mensaje) and the data (datos)
ResultadoDatos(exito, mensaje, datos, requiere) ==
    [exito |-> exito, mensaje |-> mensaje, datos |-> datos, requiere_confirmacion |-> requiere]

ResultadoComando(exito, mensaje, requiere) == ResultadoDatos(exito, mensaje, <<>>, requiere)

\* the test of _procesar_confirmacion: the whole stripped input, lower-cased
EsAfirmativo(e) ==
    /\ ~e.corchetes
    /\ ~e.eq
    /\ e.izq = <<>>
    /\ Lower(e.cab) \in {"si", "s", "yes", "y"}

\* Glosario.formatear_glosario: token -> target, as shown
FormatearGlosario(g) ==
    [k \in DOMAIN g.entradas |->
        IF Verdadero(g.entradas[k].token_tgt) THEN g.entradas[k].token_tgt ELSE "[PENDIENTE]"]

\* json.dumps on a value of the export: None is written null, a string is written quoted
JsonDe(x) == IF x = None THEN [tipo |-> "null", valor |-> ""] ELSE [tipo |-> "string", valor |-> x]

\* json.loads on a value of the export
PyDe(j) == IF j.tipo = "null" THEN None ELSE j.valor

\* Glosario.exportar_json: the JSON object written, one member per entry
ExportarJson(g) ==
    [k \in DOMAIN g.entradas |->
        [tgt |-> JsonDe(g.entradas[k].token_tgt), cat |-> JsonDe(g.entradas[k].categoria)]]

FormatearLocuciones(g) ==
    [j \in DOMAIN g.locuciones |-> <<g.locuciones[j].src, g.locuciones[j].tgt>>]

\* EstadoProceso.formatear: the percentage shown
Progreso(estado) ==
    IF estado.total_oraciones # 0
    THEN (estado.oraciones_traducidas * 100) \div estado.total_oraciones
    ELSE 0

\* the object the command processor holds (set at construction, never replaced)
CMD == 1

\* SistemaTraduccion._reiniciar: __init__ builds new objects; the command processor is the
\* module-level one and keeps the objects it was built with
Reiniciar(S) ==
    [S EXCEPT !.glosarios[2] = GlosarioNuevo, !.estados[2] = EstadoProceso, !.sis = 2]

\* the pending action, run
Ejecutar(S, accion) ==
    IF accion.tipo = "ACTUALIZA"
    THEN [S |-> [S EXCEPT !.glosarios[CMD] = ActualizarEntrada(@, accion.t, accion.v).g],
          res |-> ResultadoComando(TRUE, "Actualizado", FALSE)]
    ELSE IF accion.tipo = "ELIMINA"
    THEN [S |-> [S EXCEPT !.glosarios[CMD] = EliminarEntrada(@, accion.t).g],
          res |-> ResultadoComando(TRUE, "Eliminado", FALSE)]
    ELSE [S |-> Reiniciar(S), res |-> ResultadoComando(TRUE, "Reiniciado", FALSE)]

NoAccion == [tipo |-> None, t |-> "", v |-> ""]

\* variant: a confirmed action stays pending
ProcesarConfirmacion_SinLimpiar(S, e) ==
    IF EsAfirmativo(e)
    THEN Ejecutar(S, S.confirmacion)
    ELSE [S |-> [S EXCEPT !.confirmacion = NoAccion],
          res |-> ResultadoComando(TRUE, "Cancelado", FALSE)]

\* variant: a refused confirmation leaves the action pending
ProcesarConfirmacion_SinDescartar(S, e) ==
    IF EsAfirmativo(e)
    THEN Ejecutar([S EXCEPT !.confirmacion = NoAccion], S.confirmacion)
    ELSE [S |-> S, res |-> ResultadoComando(TRUE, "Cancelado", FALSE)]

\* ProcesadorComandos._procesar_confirmacion
ProcesarConfirmacion(S, e) ==
    IF EsAfirmativo(e)
    THEN Ejecutar([S EXCEPT !.confirmacion = NoAccion], S.confirmacion)
    ELSE [S |-> [S EXCEPT !.confirmacion = NoAccion],
          res |-> ResultadoComando(TRUE, "Cancelado", FALSE)]

\* ProcesadorComandos.procesar when nothing is pending
Despachar(S, e) ==
    LET cmd == MapeoAlias(e.cab)
        g == S.glosarios[CMD]
        t == Unir(e.izq)
        v == e.der
    IN  CASE cmd = "GLOSARIO" ->
               [S |-> S, res |-> ResultadoDatos(TRUE, "GLOSARIO", FormatearGlosario(g), FALSE)]
          [] cmd = "LOCUCIONES" ->
               [S |-> S, res |-> ResultadoDatos(TRUE, "LOCUCIONES", FormatearLocuciones(g), FALSE)]
          [] cmd = "ESTADO" ->
               [S |-> S, res |-> ResultadoDatos(TRUE, "ESTADO", <<Progreso(S.estados[CMD])>>, FALSE)]
          [] cmd = "AYUDA" ->
               [S |-> S, res |-> ResultadoComando(TRUE, "AYUDA", FALSE)]
          [] cmd = "ACTUALIZA" ->
               IF ~e.eq THEN [S |-> S, res |-> ResultadoComando(FALSE, "Uso: ACTUALIZA", FALSE)]
               ELSE [S |-> [S EXCEPT !.confirmacion = [tipo |-> "ACTUALIZA", t |-> t, v |-> v]],
                     res |-> ResultadoComando(TRUE, "Cambiar?", TRUE)]
          [] cmd = "ANADE" ->
               IF ~e.eq THEN [S |-> S, res |-> ResultadoComando(FALSE, "Uso: ANADE", FALSE)]
               ELSE IF AgregarEntrada(g, t, NUCLEO, v).ok
                    THEN [S |-> [S EXCEPT !.glosarios[CMD] = AgregarEntrada(g, t, NUCLEO, v).g],
                          res |-> ResultadoComando(TRUE, "Anadido", FALSE)]
                    ELSE [S |-> S, res |-> ResultadoComando(FALSE, "Token ya existe", FALSE)]
          [] cmd = "ANADE_LOCUCION" ->
               IF ~e.eq THEN [S |-> S, res |-> ResultadoComando(FALSE, "Uso: ANADE LOCUCION", FALSE)]
               ELSE [S |-> [S EXCEPT !.glosarios[CMD] = AgregarLocucion(g, e.izq, e.izq, <<>>, v)],
                     res |-> ResultadoComando(TRUE, "Locucion anadida", FALSE)]
          [] cmd = "ELIMINA" ->
               [S |-> [S EXCEPT !.confirmacion = [tipo |-> "ELIMINA", t |-> t, v |-> ""]],
                res |-> ResultadoComando(TRUE, "Eliminar?", TRUE)]
          [] cmd = "PAUSA" ->
               [S |-> [S EXCEPT !.estados[S.sis].pausado = TRUE],
                res |-> ResultadoComando(TRUE, "Pausado", FALSE)]
          [] cmd = "CONTINUAR" ->
               [S |-> [S EXCEPT !.estados[S.sis].pausado = FALSE],
                res |-> ResultadoComando(TRUE, "Continuando", FALSE)]
          [] cmd = "REINICIAR" ->
               [S |-> [S EXCEPT !.confirmacion = [tipo |-> "REINICIAR", t |-> "", v |-> ""]],
                res |-> ResultadoComando(TRUE, "Reiniciar?", TRUE)]
          [] cmd = "EXPORTAR_GLOSARIO" ->
               [S |-> S, res |-> ResultadoDatos(TRUE, "EXPORTAR", ExportarJson(g), FALSE)]
          [] OTHER ->
               [S |-> S, res |-> ResultadoComando(FALSE, "Comando desconocido", FALSE)]

\* ProcesadorComandos.procesar
ProcesarComando(S, e) ==
    IF S.confirmacion # NoAccion THEN ProcesarConfirmacion(S, e) ELSE Despachar(S, e)

----------------------------------------------------------------------------
(* Inputs *)

\* the texts translated, as Tokenizador leaves them: a sentence that follows another starts
\* with a capital letter (dividir_oraciones splits only there); <<>> is a sentence without
\* a token
Textos == { << <<>> >>,
            << <<"wa", "kitab", "nafs">> >>,
            << <<"nafs", "huwa", "nafs">> >>,
            << <<"wa", "kitab", "nafs">>, <<"Wa", "Kitab", "nafs">> >> }

Valores == {"alma", ""}

Entrada(cab, corchetes, eq, izq, der) ==
    [cab |-> cab, corchetes |-> corchetes, eq |-> eq, izq |-> izq, der |-> der]

\* the inputs given to ProcesadorComandos.procesar
Entradas ==
    { Entrada(c, FALSE, FALSE, <<>>, "") :
        c \in {"si", "SI", "Yes", "y", "no", "GLOSARIO", "g", "LOCUCIONES", "ESTADO", "AYUDA",
               "EXPORTAR_GLOSARIO", "PAUSA", "CONTINUAR", "REINICIAR", "ACTUALIZA", "kitab"} }
    \cup { Entrada(c, TRUE, FALSE, <<>>, "") : c \in {"si", "GLOSARIO"} }
    \cup { Entrada(c, FALSE, TRUE, <<"nafs">>, v) : c \in {"ACTUALIZA", "ANADE"}, v \in Valores }
    \cup { Entrada("actualiza", FALSE, TRUE, <<"nafs">>, "alma"),
           Entrada("ELIMINA", FALSE, FALSE, <<"nafs">>, ""),
           Entrada("ANADE_LOCUCION", FALSE, TRUE, <<"kitab", "nafs">>, "X") }

\* the locutions registered by calling Glosario.agregar_locucion with positions
LocucionesAPI ==
    { [src |-> <<"kitab", "nafs">>, posiciones |-> <<1, 2>>, tgt |-> "X"],
      [src |-> <<"wa", "kitab">>, posiciones |-> <<0, 1>>, tgt |-> "Y"],
      [src |-> <<"wa">>, posiciones |-> <<1, 3>>, tgt |-> None] }

----------------------------------------------------------------------------
(* The session *)

Sesion == [glosarios |-> glosarios, estados |-> estados, sis |-> sis,
           confirmacion |-> confirmacion]

\* history: a core token keeps the target it was ASSIGNED with until a confirmed
\* ACTUALIZA or ELIMINA of it (exentos) or until its glossary is replaced
Sellar(s, g, exentos) ==
    LET guardados == {k \in DOMAIN s : k \notin exentos}
        nuevos == {k \in DOMAIN g.entradas :
                      /\ k \notin guardados
                      /\ g.entradas[k].categoria = NUCLEO
                      /\ g.entradas[k].status = ASIGNADO}
    IN  [k \in guardados \cup nuevos |-> IF k \in guardados THEN s[k] ELSE g.entradas[k].token_tgt]

Init ==
    /\ glosarios = [i \in 1..2 |-> GlosarioNuevo]
    /\ estados = [i \in 1..2 |-> EstadoProceso]
    /\ sis = 1
    /\ confirmacion = NoAccion
    /\ ultimo = [op |-> "init"]
    /\ pasos = 0
    /\ sello = [i \in 1..2 |-> <<>>]
    /\ p6 = ProcesadorCasosDificiles
    /\ glosario_db = <<>>
    /\ ctx_actual = <<>>

DentroDeCotas(g) ==
    /\ \A k \in DOMAIN g.entradas : Len(g.entradas[k].ocurrencias) <= MaxOcc
    /\ g.loc_counter <= MaxLoc

\* variant: a paused call still registers the tokens of the text
TraducirTexto_RegistraEnPausa(texto) ==
    IF estados[sis].pausado
    THEN /\ ultimo' = [op |-> "traducir", texto |-> texto, pausado |-> TRUE]
         /\ glosarios' = [glosarios EXCEPT ![sis] = FaseAProcesar(@, Aplanar(texto))]
         /\ UNCHANGED <<estados, sis, confirmacion, sello, p6>>
    ELSE LET r == Traducir(glosarios[sis], estados[sis], texto) IN
         /\ DentroDeCotas(r.g)
         /\ glosarios' = [glosarios EXCEPT ![sis] = r.g]
         /\ estados' = [estados EXCEPT ![sis] = r.estado]
         /\ ultimo' = [op |-> "traducir", texto |-> texto, pausado |-> FALSE,
                       nuevos |-> {k \in Rango(Aplanar(texto)) : ~HayEntrada(glosarios[sis], k)},
                       oraciones |-> r.resultados]
         /\ sello' = [sello EXCEPT ![sis] = Sellar(@, r.g, {})]
         /\ UNCHANGED <<sis, confirmacion, p6>>

\* sistema.traducir(texto)
TraducirTexto(texto) ==
    IF estados[sis].pausado
    THEN /\ ultimo' = [op |-> "traducir", texto |-> texto, pausado |-> TRUE]
         /\ UNCHANGED <<glosarios, estados, sis, confirmacion, sello, p6>>
    ELSE LET r == Traducir(glosarios[sis], estados[sis], texto) IN
         /\ DentroDeCotas(r.g)
         /\ glosarios' = [glosarios EXCEPT ![sis] = r.g]
         /\ estados' = [estados EXCEPT ![sis] = r.estado]
         /\ ultimo' = [op |-> "traducir", texto |-> texto, pausado |-> FALSE,
                       nuevos |-> {k \in Rango(Aplanar(texto)) : ~HayEntrada(glosarios[sis], k)},
                       oraciones |-> r.resultados]
         /\ sello' = [sello EXCEPT ![sis] = Sellar(@, r.g, {})]
         /\ UNCHANGED <<sis, confirmacion, p6>>

\* sistema.procesar_comando(e)
Comando(e) ==
    LET r == ProcesarComando(Sesion, e)
        confirmado == confirmacion # NoAccion /\ EsAfirmativo(e)
        exentos == IF confirmado /\ confirmacion.tipo \in {"ACTUALIZA", "ELIMINA"}
                   THEN {confirmacion.t} ELSE {}
    IN  /\ DentroDeCotas(r.S.glosarios[CMD])
        /\ glosarios' = r.S.glosarios
        /\ estados' = r.S.estados
        /\ sis' = r.S.sis
        /\ confirmacion' = r.S.confirmacion
        /\ ultimo' = [op |-> "comando", entrada |-> e, res |-> r.res, pendiente |-> confirmacion]
        /\ sello' = [i \in 1..2 |->
                        IF i = 2 /\ confirmado /\ confirmacion.tipo = "REINICIAR" THEN <<>>
                        ELSE Sellar(sello[i], r.S.glosarios[i], exentos)]
        /\ p6' = IF confirmado /\ confirmacion.tipo = "REINICIAR"
                 THEN ProcesadorCasosDificiles ELSE p6

\* sistema.glosario.agregar_locucion(src, componentes, posiciones, tgt)
RegistrarLocucion(l) ==
    /\ glosarios[sis].loc_counter < MaxLoc
    /\ \A j \in DOMAIN glosarios[sis].locuciones : glosarios[sis].locuciones[j].src # l.src
    /\ glosarios' = [glosarios EXCEPT ![sis] = AgregarLocucion(@, l.src, l.src, l.posiciones, l.tgt)]
    /\ ultimo' = [op |-> "agregar_locucion", loc |-> l]
    /\ sello' = [sello EXCEPT ![sis] = Sellar(@, glosarios'[sis], {})]
    /\ UNCHANGED <<estados, sis, confirmacion, p6>>

\* the translation sessions: the texts, the locutions (each phrase registered once), and the
\* commands that add an entry and force a target (ACTUALIZA, then its confirmation)
EntradasGlosario ==
    { Entrada("ANADE", FALSE, TRUE, <<k>>, "alma") : k \in {"nafs", "kitab"} }
    \cup { Entrada("ACTUALIZA", FALSE, TRUE, <<"nafs">>, ""), Entrada("si", FALSE, FALSE, <<>>, "") }

\* a step outside the counted command sessions
Libre(A) == A /\ UNCHANGED <<pasos, glosario_db, ctx_actual>>

Next ==
    \/ \E texto \in Textos : Libre(TraducirTexto(texto))
    \/ \E e \in EntradasGlosario : Libre(Comando(e))
    \/ \E l \in LocucionesAPI : Libre(RegistrarLocucion(l))

Spec == Init /\ [][Next]_vars

\* the command sessions: every command and two texts, MaxPasos calls long
TextosComandos == { <<>>, << <<"wa", "kitab", "nafs">> >> }

\* a step of a counted session
Contado(A) == pasos < MaxPasos /\ pasos' = pasos + 1 /\ A /\ UNCHANGED <<glosario_db, ctx_actual>>

NextComandos ==
    \/ \E texto \in TextosComandos : Contado(TraducirTexto(texto))
    \/ \E e \in Entradas : Contado(Comando(e))

SpecComandos == Init /\ [][NextComandos]_vars

\* the glossary called directly, one method per step
LotesAPI == { <<"nafs", "wa">>, <<"nafs", "nafs">> }
TokensAPI == {"nafs", "wa"}
ObjetivosAPI == {"alma", "animo"}
EtiquetasAPI == {None, FORZADO_USUARIO}

EntradaDe(g, token) ==
    IF HayEntrada(g, token) THEN ObtenerEntrada(g, token)
    ELSE EntradaGlosario(None, None, None, <<>>)

LlamarFaseA(lote) ==
    LET g == FaseAProcesar(glosarios[CMD], lote) IN
    /\ DentroDeCotas(g)
    /\ glosarios' = [glosarios EXCEPT ![CMD] = g]
    /\ ultimo' = [op |-> "fase_a_procesar", lote |-> lote]

LlamarFaseB(token, tgt, etiqueta) ==
    LET r == FaseBAsignar(glosarios[CMD], token, tgt, etiqueta) IN
    /\ glosarios' = [glosarios EXCEPT ![CMD] = r.g]
    /\ ultimo' = [op |-> "fase_b_asignar", token |-> token, tgt |-> tgt, etiqueta |-> etiqueta,
                  ret |-> r.ret, habia |-> HayEntrada(glosarios[CMD], token),
                  antes |-> EntradaDe(glosarios[CMD], token)]

LlamarActualizar(token, nueva) ==
    LET r == ActualizarEntrada(glosarios[CMD], token, nueva) IN
    /\ glosarios' = [glosarios EXCEPT ![CMD] = r.g]
    /\ ultimo' = [op |-> "actualizar_entrada", token |-> token, tgt |-> nueva,
                  ok |-> r.ok, n |-> r.n, antes |-> EntradaDe(glosarios[CMD], token)]

LlamarAgregar(token, tgt) ==
    LET r == AgregarEntrada(glosarios[CMD], token, NUCLEO, tgt) IN
    /\ glosarios' = [glosarios EXCEPT ![CMD] = r.g]
    /\ ultimo' = [op |-> "agregar_entrada", token |-> token, tgt |-> tgt, ok |-> r.ok]

LlamarEliminar(token) ==
    LET r == EliminarEntrada(glosarios[CMD], token) IN
    /\ glosarios' = [glosarios EXCEPT ![CMD] = r.g]
    /\ ultimo' = [op |-> "eliminar_entrada", token |-> token, ok |-> r.ok, n |-> r.n]

\* a read: tras_eliminar tells that the call before it deleted this token
TrasEliminar(token) ==
    ultimo.op = "eliminar_entrada" /\ ultimo.ok /\ ultimo.token = token

\* variant: the lookup of a token that is not registered registers it
LlamarObtenerTraduccion_Registra(token) ==
    /\ ultimo' = [op |-> "obtener_traduccion", token |-> token,
                  ret |-> ObtenerTraduccion(glosarios[CMD], token), excepcion |-> None,
                  tras_eliminar |-> TrasEliminar(token)]
    /\ glosarios' = [glosarios EXCEPT ![CMD] = AgregarEntrada(@, token, NUCLEO, None).g]

LlamarObtenerTraduccion(token) ==
    /\ ultimo' = [op |-> "obtener_traduccion", token |-> token,
                  ret |-> ObtenerTraduccion(glosarios[CMD], token), excepcion |-> None,
                  tras_eliminar |-> TrasEliminar(token)]
    /\ UNCHANGED glosarios

LlamarVerificarExistencia(token) ==
    /\ ultimo' = [op |-> "fase_b_verificar_existencia", token |-> token,
                  excepcion |-> FaseBVerificarExistencia(glosarios[CMD], token),
                  tras_eliminar |-> TrasEliminar(token)]
    /\ UNCHANGED glosarios

LlamarLocucion(l) ==
    /\ glosarios[CMD].loc_counter < MaxLoc
    /\ glosarios' = [glosarios EXCEPT ![CMD] = AgregarLocucion(@, l.src, l.src, l.posiciones, l.tgt)]
    /\ ultimo' = [op |-> "agregar_locucion", loc |-> l]

\* a call on the glossary alone
Directo(A) ==
    A /\ UNCHANGED <<estados, sis, confirmacion, pasos, sello, p6, glosario_db, ctx_actual>>

NextGlosario ==
    \/ \E lote \in LotesAPI : Directo(LlamarFaseA(lote))
    \/ \E token \in TokensAPI, tgt \in ObjetivosAPI, etiqueta \in EtiquetasAPI :
           Directo(LlamarFaseB(token, tgt, etiqueta))
    \/ \E token \in TokensAPI : Directo(LlamarActualizar(token, "animo"))
    \/ \E token \in TokensAPI, tgt \in {"alma", "", None} : Directo(LlamarAgregar(token, tgt))
    \/ \E token \in TokensAPI : Directo(LlamarEliminar(token))
    \/ \E token \in TokensAPI : Directo(LlamarObtenerTraduccion(token))
    \/ \E token \in TokensAPI : Directo(LlamarVerificarExistencia(token))
    \/ Directo(LlamarLocucion([src |-> <<"kitab", "nafs">>, posiciones |-> <<1, 2>>, tgt |-> "X"]))

SpecGlosario == Init /\ [][NextGlosario]_vars

\* Glosario.fase_b_verificar_bloqueo: the id of the first locution, in the order of the
\* dict, that has the token among its components, or None (written 0, as in locucion_id)
FaseBVerificarBloqueo(g, token) ==
    LET con == {j \in DOMAIN g.locuciones : token \in Rango(g.locuciones[j].componentes)} IN
    IF con = {} THEN 0
    ELSE g.locuciones[CHOOSE j \in con : \A k \in con : j <= k].id

LlamarVerificarBloqueo(token) ==
    /\ ultimo' = [op |-> "fase_b_verificar_bloqueo", token |-> token,
                  ret |-> FaseBVerificarBloqueo(glosarios[CMD], token)]
    /\ UNCHANGED glosarios

\* a read of the glossary made during a command session
Lectura(A) == A /\ UNCHANGED <<estados, sis, confirmacion, sello, p6>>

\* the command sessions with the reads of the glossary among their steps
NextLecturas ==
    \/ \E texto \in TextosComandos : Contado(TraducirTexto(texto))
    \/ \E e \in Entradas : Contado(Comando(e))
    \/ Contado(Lectura(LlamarObtenerTraduccion("nafs")))
    \/ Contado(Lectura(LlamarVerificarExistencia("nafs")))
    \/ Contado(Lectura(LlamarVerificarBloqueo("nafs")))

SpecLecturas == Init /\ [][NextLecturas]_vars

\* proc_nucleos.set_procesador_casos_dificiles(p)
SetProcesadorCasosDificiles(p) ==
    /\ p6' = p
    /\ ultimo' = [op |-> "set_procesador_casos_dificiles", p |-> p]
    /\ UNCHANGED <<glosarios, estados, sis, confirmacion, sello>>

\* what traducir leaves, r being the outcome of its loop
TrasTraducir(texto, r) ==
    /\ DentroDeCotas(r.g)
    /\ glosarios' = [glosarios EXCEPT ![sis] = r.g]
    /\ estados' = [estados EXCEPT ![sis] = r.estado]
    /\ ultimo' = [op |-> "traducir", texto |-> texto, pausado |-> FALSE,
                  nuevos |-> {k \in Rango(Aplanar(texto)) : ~HayEntrada(glosarios[sis], k)},
                  oraciones |-> r.resultados,
                  excepcion |-> r.excepcion, fallo |-> r.fallo, p |-> p6]
    /\ sello' = [sello EXCEPT ![sis] = Sellar(@, r.g, {})]
    /\ UNCHANGED <<sis, confirmacion, p6>>

\* sistema.traducir(texto), whatever p6 is: excepcion is the exception that left the call, or
\* None; oraciones are the sentences procesar_oracion returned for
TraducirTextoCon(texto) ==
    IF estados[sis].pausado
    THEN /\ ultimo' = [op |-> "traducir", texto |-> texto, pausado |-> TRUE]
         /\ UNCHANGED <<glosarios, estados, sis, confirmacion, sello, p6>>
    ELSE TrasTraducir(texto, TraducirCon(p6, glosarios[sis], estados[sis], texto))

\* ProcesadorCasosDificiles().procesar(slot_n, reason, sistema.glosario, candidatos), slot_n
\* being a core slot of the token
LlamarCasoDificil(token, reason, candidatos) ==
    /\ ultimo' = [op |-> "caso_dificil", token |-> token, reason |-> reason,
                  candidatos |-> candidatos,
                  ret |-> ProcesarCasoDificil(token, reason, candidatos)]
    /\ UNCHANGED <<glosarios, estados, sis, confirmacion, sello, p6>>

\* the sessions in which the difficult-case resolver is replaced or called: the texts, the
\* commands that add an entry and force a target, and the two resolvers
ProcesadoresP6 == {ProcesadorCasosDificiles, ProcesadorQueFalla}
Razones == {"NO_ROOT", "GAP_DERIVATION", "COLLISION", "IDIOM"}
Candidatos == { <<>>, <<"animo">>, <<"alma", "animo">> }

NextResolutor ==
    \/ \E texto \in Textos : Libre(TraducirTextoCon(texto))
    \/ \E e \in EntradasGlosario : Libre(Comando(e))
    \/ \E p \in ProcesadoresP6 : Libre(SetProcesadorCasosDificiles(p))
    \/ \E token \in {"nafs", "ar:ktb"}, reason \in Razones, candidatos \in Candidatos :
           Libre(LlamarCasoDificil(token, reason, candidatos))

SpecResolutor == Init /\ [][NextResolutor]_vars

----------------------------------------------------------------------------
(* src/app.py: GestorGlosario and SistemaTraduccion.procesar *)

CONFLICTO == "CONFLICTO"
Validado == "Validado por Glosario"
NotaConflicto == "Glosario dice, IA propuso"

\* TokenData as SistemaTraduccion.procesar builds it from an item of the engine's answer
TokenData(item) ==
    [source |-> item.source, target_propuesto |-> item.target_propuesto, target_final |-> "",
     status |-> PENDIENTE, nota_ai |-> item.explicacion]

\* the key buscar_token and guardar_decision use
ClaveDb(token_src) == Lower(Strip(token_src))

\* GestorGlosario.buscar_token returns the entry or None: HayEnDb tells which
HayEnDb(db, token_src) == ClaveDb(token_src) \in DOMAIN db
BuscarToken(db, token_src) == db[ClaveDb(token_src)]

\* variant: on a mismatch the proposal is kept as the final target
RegistrarOValidar_PropuestaGana(db, token) ==
    IF HayEnDb(db, token.source)
    THEN IF token.target_propuesto # ""
            /\ Lower(token.target_propuesto) # Lower(BuscarToken(db, token.source).target)
         THEN [token EXCEPT !.status = CONFLICTO, !.nota_ai = NotaConflicto,
                            !.target_final = token.target_propuesto]
         ELSE [token EXCEPT !.status = ASIGNADO,
                            !.target_final = BuscarToken(db, token.source).target,
                            !.nota_ai = Validado]
    ELSE [token EXCEPT !.status = PENDIENTE, !.target_final = token.target_propuesto]

\* GestorGlosario.registrar_o_validar: the token returned (the glossary is only read)
RegistrarOValidar(db, token) ==
    IF HayEnDb(db, token.source)
    THEN IF token.target_propuesto # ""
            /\ Lower(token.target_propuesto) # Lower(BuscarToken(db, token.source).target)
         THEN [token EXCEPT !.status = CONFLICTO, !.nota_ai = NotaConflicto,
                            !.target_final = BuscarToken(db, token.source).target]
         ELSE [token EXCEPT !.status = ASIGNADO,
                            !.target_final = BuscarToken(db, token.source).target,
                            !.nota_ai = Validado]
    ELSE [token EXCEPT !.status = PENDIENTE, !.target_final = token.target_propuesto]

\* GestorGlosario.guardar_decision
GuardarDecision(db, token_src, token_tgt, categoria) ==
    Poner(db, ClaveDb(token_src), [target |-> Strip(token_tgt), categoria |-> categoria])

\* the answers of the engine (GeminiEngine.analizar_texto): lists of at most MaxItems items
MaxItems == 2
FuentesApp == {"nafs", " Nafs"}
PropuestasApp == {"", "alma", "Alma", "animo"}
Items == [source : FuentesApp, target_propuesto : PropuestasApp, explicacion : {"raiz"}]
Respuestas == UNION { [1..n -> Items] : n \in 0..MaxItems }

\* the streamlit_app state is not touched by src/app.py
EnApp(A) == A /\ UNCHANGED <<glosarios, estados, sis, confirmacion, pasos, sello, p6>>

\* the PROCESAR button: SistemaTraduccion.procesar(texto), raw_data being what the engine
\* answered; render_ui keeps the context returned in st.session_state['ctx_actual']
Procesar(raw_data) ==
    LET matriz_tokens == [i \in DOMAIN raw_data |->
                             RegistrarOValidar(glosario_db, TokenData(raw_data[i]))] IN
    /\ ultimo' = [op |-> "procesar", raw_data |-> raw_data, matriz_tokens |-> matriz_tokens,
                  is_processed |-> TRUE]
    /\ ctx_actual' = matriz_tokens
    /\ UNCHANGED glosario_db

\* glosario.guardar_decision(token_src, token_tgt, "NUCLEO"), called to fill the glossary
\* before a text is processed; after that the approve button is what calls it
LlamarGuardarDecision(token_src, token_tgt) ==
    /\ ctx_actual = <<>>
    /\ glosario_db' = GuardarDecision(glosario_db, token_src, token_tgt, NUCLEO)
    /\ ultimo' = [op |-> "guardar_decision", token_src |-> token_src, token_tgt |-> token_tgt]
    /\ UNCHANGED ctx_actual

\* render_ui: the rows the data editor shows under a filter
Filtros == {"Todos", "Conflictos", "Pendientes"}
Mostrado(filtro, t) ==
    /\ filtro = "Conflictos" => t.status = CONFLICTO
    /\ filtro = "Pendientes" => t.status = PENDIENTE

\* what the user typed in the column of the final target of each row: None where the cell
\* was left as shown
Ediciones(matriz, filtro) ==
    {ed \in [DOMAIN matriz -> {None, "animo"}] :
        \A i \in DOMAIN matriz : ~Mostrado(filtro, matriz[i]) => ed[i] = None}

\* the loop of the approve button over the rows of the editor, from row i on: r holds the
\* glossary, the matrix and cambios_cnt; mostrados are the rows the editor was built with
RECURSIVE AprobarDesde(_, _, _, _)
AprobarDesde(r, mostrados, ed, i) ==
    IF i > Len(r.matriz) THEN r
    ELSE IF i \notin mostrados THEN AprobarDesde(r, mostrados, ed, i + 1)
    ELSE LET token_obj == r.matriz[i]
             nuevo_target == IF ed[i] = None THEN token_obj.target_final ELSE ed[i]
         IN  IF token_obj.status \in {PENDIENTE, CONFLICTO}
             THEN AprobarDesde(
                      [db |-> GuardarDecision(r.db, token_obj.source, nuevo_target, NUCLEO),
                       matriz |-> [r.matriz EXCEPT ![i] = [token_obj EXCEPT
                                       !.target_final = nuevo_target, !.status = ASIGNADO]],
                       cambios_cnt |-> r.cambios_cnt + 1],
                      mostrados, ed, i + 1)
             ELSE AprobarDesde(
                      [r EXCEPT !.matriz[i].target_final = nuevo_target], mostrados, ed, i + 1)

\* the approve button of render_ui, pressed with the filter and the edits given; the button
\* is there when the editor has a row
Aprobar(filtro, ed) ==
    LET mostrados == {i \in DOMAIN ctx_actual : Mostrado(filtro, ctx_actual[i])}
        r == AprobarDesde([db |-> glosario_db, matriz |-> ctx_actual, cambios_cnt |-> 0],
                          mostrados, ed, 1)
    IN  /\ mostrados # {}
        /\ glosario_db' = r.db
        /\ ctx_actual' = r.matriz
        /\ ultimo' = [op |-> "aprobar", filtro |-> filtro, ed |-> ed, antes |-> [i \in DOMAIN ctx_actual |-> ctx_actual[i].status],
                      cambios_cnt |-> r.cambios_cnt]

NextApp ==
    \/ \E raw_data \in Respuestas : EnApp(Procesar(raw_data))
    \/ \E token_src \in FuentesApp, token_tgt \in {"alma ", "animo", ""} :
           EnApp(LlamarGuardarDecision(token_src, token_tgt))
    \/ \E filtro \in Filtros : \E ed \in Ediciones(ctx_actual, filtro) :
           EnApp(Aprobar(filtro, ed))

SpecApp == Init /\ [][NextApp]_vars

----------------------------------------------------------------------------
(* Properties *)

\* a translate request that was not refused for the pause, and its sentences
EnTraduccion == ultimo.op = "traducir" /\ ~ultimo.pausado
Oraciones == IF EnTraduccion THEN ultimo.oraciones ELSE <<>>

\* C1: every target matrix returned by procesar_oracion has exactly as many cells as the
\* source matrix it was given, at allocation and on return, whatever N >= 0 and whatever
\* cells were marked 'locucion' or 'absorbido'
C1_Isomorfismo ==
    \A i \in DOMAIN Oraciones :
        LET r == Oraciones[i]
            N == Len(r.tokens)
        IN  /\ Len(r.mtx_s.celdas) = N
            /\ r.size_inicial = N
            /\ r.mtx_t.size = N
            /\ Len(r.mtx_t.celdas) = N

\* C1: a sentence of three tokens came back with a 'locucion' cell and an 'absorbido' cell
C1_Testigo ==
    \E i \in DOMAIN Oraciones :
          /\ Len(Oraciones[i].tokens) = 3
          /\ \E p, q \in DOMAIN Oraciones[i].mtx_t.celdas :
                /\ Oraciones[i].mtx_t.celdas[p].tipo = "locucion"
                /\ Oraciones[i].mtx_t.celdas[q].tipo = "absorbido"

\* C2: a core entry that was ASSIGNED target x still has target x, as long as no confirmed
\* ACTUALIZA and no ELIMINA of its token happened (sello holds x for each such token)
C2_NucleoAsignadoInmutable ==
    \A i \in 1..2 : \A k \in DOMAIN sello[i] :
        ObtenerTraduccion(glosarios[i], k) = sello[i][k]

\* C3: fase_b_asignar on a core entry that is ASSIGNED with a tag other than FORZADO_USUARIO,
\* with a different target and a tag other than FORZADO_USUARIO, does not return normally
\* with the stored target replaced
C3_SinonimiaSenalada ==
    ( /\ ultimo.op = "fase_b_asignar"
      /\ ultimo.habia
      /\ ultimo.antes.categoria = NUCLEO
      /\ ultimo.antes.status = ASIGNADO
      /\ ultimo.antes.etiqueta # FORZADO_USUARIO
      /\ ultimo.tgt # ultimo.antes.token_tgt
      /\ ultimo.etiqueta # FORZADO_USUARIO )
    => ~( /\ ultimo.ret
          /\ ObtenerTraduccion(glosarios[CMD], ultimo.token) # ultimo.antes.token_tgt )

\* the core slots handled in a sentence
HuellasDe(r) == {r.huellas[j] : j \in DOMAIN r.huellas}

\* C4: when the resolver took the NO_ROOT fallback for a registered token, the entry is
\* ASSIGNED, tagged AUTO_NEOLOGISMO, and its target is the one put in the slot and in the
\* target cell (and still the one looked up when the request ends)
C4_NeologismoRegistrado ==
    \A i \in DOMAIN Oraciones : \A h \in HuellasDe(Oraciones[i]) :
        (h.via = "no_root" /\ h.habia) =>
            /\ h.despues.status = ASIGNADO
            /\ h.despues.etiqueta = AUTO_NEOLOGISMO
            /\ h.despues.token_tgt = h.token_tgt
            /\ Oraciones[i].mtx_s.celdas[h.pos + 1].slot.token_tgt = h.token_tgt
            /\ Oraciones[i].mtx_t.celdas[h.pos + 1].token_tgt = h.token_tgt
            /\ ObtenerTraduccion(glosarios[sis], h.token) = h.token_tgt

\* C4: the fallback was taken for a registered token whose entry held a target already
C4_Testigo ==
    \E i \in DOMAIN Oraciones : \E h \in HuellasDe(Oraciones[i]) :
        /\ h.via = "no_root"
        /\ h.habia
        /\ h.antes.status = BLOQUEADO
        /\ h.antes.token_tgt = "alma"
        /\ h.token_tgt = "nafs-ado"

\* a core slot that no locution blocks
NucleoLibre(r, p) ==
    /\ r.mtx_s.celdas[p].slot.clase = "N"
    /\ r.mtx_s.celdas[p].slot.status # BLOQUEADO

\* the core slots handled in a request (o is the sentence), and their order in the text
Manejos ==
    UNION { {[o |-> i, h |-> h] : h \in HuellasDe(Oraciones[i])} : i \in DOMAIN Oraciones }

Anterior(a, b) == a.o < b.o \/ (a.o = b.o /\ a.h.pos < b.h.pos)

Consecutivos(a, b) ==
    /\ a.h.token = b.h.token
    /\ Anterior(a, b)
    /\ ~\E m \in Manejos : m.h.token = a.h.token /\ Anterior(a, m) /\ Anterior(m, b)

\* C5: the sentences of a request are resolved in the order of the text (a slot finds the
\* entry as the slot of the same token before it left it), and every non-blocked
\* occurrence of one core spelling gets the same target in its cell
C5_MismoObjetivo ==
    /\ EnTraduccion =>
          /\ Len(Oraciones) = Len(ultimo.texto)
          /\ \A i \in DOMAIN Oraciones : Oraciones[i].tokens = ultimo.texto[i]
    /\ \A a, b \in Manejos : Consecutivos(a, b) => b.h.antes = a.h.despues
    /\ \A i, j \in DOMAIN Oraciones :
          \A p \in DOMAIN Oraciones[i].mtx_t.celdas, q \in DOMAIN Oraciones[j].mtx_t.celdas :
              ( /\ NucleoLibre(Oraciones[i], p)
                /\ NucleoLibre(Oraciones[j], q)
                /\ Oraciones[i].tokens[p] = Oraciones[j].tokens[q] )
              => Oraciones[i].mtx_t.celdas[p].token_tgt = Oraciones[j].mtx_t.celdas[q].token_tgt

\* C5: a token whose stored target was replaced by a neologism in the first sentence occurs
\* again
C5_Testigo ==
    \E i \in DOMAIN Oraciones : \E h, k \in HuellasDe(Oraciones[i]) :
        /\ h.token = k.token
        /\ h.pos < k.pos
        /\ h.via = "no_root"
        /\ Verdadero(h.antes.token_tgt)
        /\ h.antes.token_tgt # h.token_tgt
        /\ k.via = "cache"

\* the entry found ASSIGNED
Asignada(h) == h.habia /\ h.antes.status = ASIGNADO

\* C6: for every non-blocked core slot the resolver answers the glossary target when the
\* entry is ASSIGNED, leaving the glossary as it was, even for a token of the lexicon;
\* otherwise the lexicon target of the lower-cased token; only otherwise the NO_ROOT fallback
C6_PrioridadFija ==
    \A i \in DOMAIN Oraciones : \A h \in HuellasDe(Oraciones[i]) :
        /\ Asignada(h) =>
              /\ h.token_tgt = h.antes.token_tgt
              /\ ~h.restart
              /\ h.despues = h.antes
              /\ h.resto_igual
        /\ (~Asignada(h) /\ Lower(h.token) \in DOMAIN etimologia) =>
              /\ h.token_tgt = etimologia[Lower(h.token)]
              /\ ~h.restart
        /\ (~Asignada(h) /\ Lower(h.token) \notin DOMAIN etimologia) =>
              /\ h.via = "no_root"
              /\ h.restart
              /\ h.token_tgt = Radical(h.token)

\* C6: a token of the lexicon whose entry is ASSIGNED another target was resolved
C6_Testigo ==
    \E i \in DOMAIN Oraciones : \E h \in HuellasDe(Oraciones[i]) :
        /\ Asignada(h)
        /\ Lower(h.token) \in DOMAIN etimologia
        /\ h.token_tgt # etimologia[Lower(h.token)]

\* C7: a core token of the lexicon that was not registered before the request has the
\* lexicon target in its cell, and its entry is ASSIGNED when the request ends
C7_LexicoAsignado ==
    \A i \in DOMAIN Oraciones : \A p \in DOMAIN Oraciones[i].tokens :
        LET r == Oraciones[i]
            tok == r.tokens[p]
        IN  ( /\ tok \in ultimo.nuevos
              /\ Lower(tok) \in DOMAIN etimologia
              /\ NucleoLibre(r, p) )
            => /\ r.mtx_t.celdas[p].token_tgt = etimologia[Lower(tok)]
               /\ HayEntrada(glosarios[sis], tok)
               /\ ObtenerEntrada(glosarios[sis], tok).status = ASIGNADO

\* the member positions of a locution lie inside a matrix of N cells
Dentro(l, N) == l.posiciones # <<>> /\ \A p \in Rango(l.posiciones) : 0 <= p /\ p < N

\* the cell at the least member position is the 'locucion' cell with the locution's target;
\* the cells at the other member positions are 'absorbido' and hold only the marker
Absorcion(r, l) ==
    \A p \in Rango(l.posiciones) :
        LET c == r.mtx_t.celdas[p + 1] IN
        IF \A q \in Rango(l.posiciones) : p <= q
        THEN c.tipo = "locucion" /\ c.token_tgt = l.tgt
        ELSE c.tipo = "absorbido" /\ c.token_tgt = ABSORBIDO_TXT

\* no member position of the k-th locution attached is one of a locution attached before it
SinSolapeAnterior(m, k) ==
    \A j \in DOMAIN m.locuciones :
        j < k => Rango(m.locuciones[j].posiciones) \cap Rango(m.locuciones[k].posiciones) = {}

\* C8, as stated: for every locution attached to a source matrix with its positions inside
\* the matrix, the cell at the least position is LOCUTION with the locution's target and
\* every other member cell is ABSORBED
C8_AbsorcionTodas ==
    \A i \in DOMAIN Oraciones : \A k \in DOMAIN Oraciones[i].mtx_s.locuciones :
        LET r == Oraciones[i]
            l == r.mtx_s.locuciones[k]
        IN  Dentro(l, Len(r.tokens)) => Absorcion(r, l)

\* C8: the same, for the locutions that share no position with a locution attached to the
\* matrix before them
C8_AbsorcionSinSolape ==
    \A i \in DOMAIN Oraciones : \A k \in DOMAIN Oraciones[i].mtx_s.locuciones :
        LET r == Oraciones[i]
            l == r.mtx_s.locuciones[k]
        IN  (Dentro(l, Len(r.tokens)) /\ SinSolapeAnterior(r.mtx_s, k)) => Absorcion(r, l)

\* C8: two locutions that overlap were attached to one sentence, the first of them of two
\* positions
C8_Testigo ==
    \E i \in DOMAIN Oraciones :
        LET m == Oraciones[i].mtx_s IN
        /\ Len(m.locuciones) = 2
        /\ Dentro(m.locuciones[1], Len(Oraciones[i].tokens))
        /\ Len(m.locuciones[1].posiciones) = 2
        /\ ~SinSolapeAnterior(m, 2)

\* the cells that are not absorbed, and the place of such a cell among them
Vivas(r) == {p \in DOMAIN r.mtx_t.celdas : r.mtx_t.celdas[p].tipo # "absorbido"}
Lugar(r, p) == Cardinality({q \in Vivas(r) : q <= p})

\* C9, as stated: serializar_resultado emits one item for each cell that is not absorbed, in
\* the order of the positions, N less the absorbed cells in all; the item is the target of
\* the cell, or the bracketed source token when the cell has no target (None)
C9_SerializacionNone ==
    \A i \in DOMAIN Oraciones :
        LET r == Oraciones[i] IN
        /\ Len(r.salida) =
             Len(r.tokens) - Cardinality({p \in DOMAIN r.mtx_t.celdas : r.mtx_t.celdas[p].tipo = "absorbido"})
        /\ \A p \in Vivas(r) :
              r.salida[Lugar(r, p)] =
                 IF r.mtx_t.celdas[p].token_tgt # None THEN r.mtx_t.celdas[p].token_tgt
                 ELSE "[" \o r.tokens[p] \o "]"

\* C9: the same, with the bracketed source token also for a cell whose target is the empty
\* text
C9_SerializacionVacio ==
    \A i \in DOMAIN Oraciones :
        LET r == Oraciones[i] IN
        /\ Len(r.salida) =
             Len(r.tokens) - Cardinality({p \in DOMAIN r.mtx_t.celdas : r.mtx_t.celdas[p].tipo = "absorbido"})
        /\ \A p \in Vivas(r) :
              r.salida[Lugar(r, p)] =
                 IF r.mtx_t.celdas[p].token_tgt \notin {None, ""} THEN r.mtx_t.celdas[p].token_tgt
                 ELSE "[" \o r.tokens[p] \o "]"

\* C9: a sentence was serialized that has an absorbed cell before a cell whose target is
\* the empty text
C9_Testigo ==
    \E i \in DOMAIN Oraciones : \E p, q \in DOMAIN Oraciones[i].mtx_t.celdas :
        /\ p < q
        /\ Oraciones[i].mtx_t.celdas[p].tipo = "absorbido"
        /\ Oraciones[i].mtx_t.celdas[q].token_tgt = ""
        /\ Oraciones[i].salida[Lugar(Oraciones[i], q)] = "[nafs]"

\* the input is an ACTUALIZA token=value, an ELIMINA or a REINICIAR
PideConfirmacion(e) ==
    \/ MapeoAlias(e.cab) = "ACTUALIZA" /\ e.eq
    \/ MapeoAlias(e.cab) \in {"ELIMINA", "REINICIAR"}

\* a step that is a call of the command processor
C10_Paso ==
    (ultimo'.op = "comando" /\ pasos' # pasos) =>
        /\ (confirmacion = NoAccion /\ PideConfirmacion(ultimo'.entrada)) =>
              /\ ultimo'.res.requiere_confirmacion
              /\ confirmacion' # NoAccion
              /\ confirmacion'.tipo = MapeoAlias(ultimo'.entrada.cab)
              /\ glosarios' = glosarios /\ estados' = estados /\ sis' = sis
        /\ (confirmacion # NoAccion /\ Lower(Unir(<<ultimo'.entrada.cab>> \o ultimo'.entrada.izq)) \notin {"si", "s", "yes", "y"}) =>
              /\ confirmacion' = NoAccion
              /\ ultimo'.res.mensaje = "Cancelado"
              /\ glosarios' = glosarios /\ estados' = estados /\ sis' = sis

\* C10: accepting ACTUALIZA, ELIMINA or REINICIAR leaves one action pending and changes
\* nothing else; an input other than si/s/yes/y given next discards the pending action, is
\* not run as a command, and leaves the glossaries and the progress state as they were
C10_Confirmacion == [][C10_Paso]_vars

\* C10: a pending ELIMINA of a registered token was discarded by an input that is a command
C10_Testigo ==
    /\ ultimo.op = "comando"
    /\ ultimo.pendiente.tipo = "ELIMINA"
    /\ HayEntrada(glosarios[CMD], ultimo.pendiente.t)
    /\ MapeoAlias(ultimo.entrada.cab) = "PAUSA"
    /\ ultimo.res.mensaje = "Cancelado"
    /\ confirmacion = NoAccion
    /\ ~estados[sis].pausado

\* the entries of a glossary other than that of token t
OtrasEntradas(g, t) == [k \in DOMAIN g.entradas \ {t} |-> g.entradas[k]]

\* a step in which the command processor is given si/s/yes/y
C11_Paso ==
    (ultimo'.op = "comando" /\ pasos' # pasos /\ EsAfirmativo(ultimo'.entrada)) =>
        /\ confirmacion' = NoAccion
        /\ confirmacion = NoAccion =>
              glosarios' = glosarios /\ estados' = estados /\ sis' = sis
        /\ (confirmacion.tipo = "ACTUALIZA" /\ HayEntrada(glosarios[CMD], confirmacion.t)) =>
              /\ HayEntrada(glosarios'[CMD], confirmacion.t)
              /\ glosarios'[CMD].entradas[confirmacion.t].token_tgt = confirmacion.v
              /\ glosarios'[CMD].entradas[confirmacion.t].etiqueta = FORZADO_USUARIO
              /\ OtrasEntradas(glosarios'[CMD], confirmacion.t) = OtrasEntradas(glosarios[CMD], confirmacion.t)
              /\ estados' = estados /\ sis' = sis
        /\ confirmacion.tipo = "ELIMINA" =>
              /\ ~HayEntrada(glosarios'[CMD], confirmacion.t)
              /\ OtrasEntradas(glosarios'[CMD], confirmacion.t) = OtrasEntradas(glosarios[CMD], confirmacion.t)
              /\ estados' = estados /\ sis' = sis
        /\ confirmacion.tipo = "REINICIAR" =>
              /\ sis' = 2
              /\ glosarios'[2] = GlosarioNuevo
              /\ estados'[2] = EstadoProceso

\* C11: an affirmative input (any letter case) given while an action is pending runs that
\* action once and clears the pending slot, so that an affirmative input given next runs
\* nothing; a pending ACTUALIZA t=v of a registered token sets the target of t to v and its
\* tag to FORZADO_USUARIO
C11_Afirmativo == [][C11_Paso]_vars

\* C11: a pending ACTUALIZA of a registered token was confirmed with an input in capitals
C11_Testigo ==
    /\ ultimo.op = "comando"
    /\ ultimo.pendiente.tipo = "ACTUALIZA"
    /\ ultimo.entrada.cab \in {"SI", "Yes"}
    /\ HayEntrada(glosarios[CMD], ultimo.pendiente.t)
    /\ glosarios[CMD].entradas[ultimo.pendiente.t].token_tgt = ultimo.pendiente.v
    /\ glosarios[CMD].entradas[ultimo.pendiente.t].etiqueta = FORZADO_USUARIO
    /\ confirmacion = NoAccion

\* a step in which a pending ACTUALIZA or ELIMINA of a token that has no entry is confirmed
C12_Paso ==
    ( /\ ultimo'.op = "comando"
      /\ pasos' # pasos
      /\ confirmacion.tipo \in {"ACTUALIZA", "ELIMINA"}
      /\ ~HayEntrada(glosarios[CMD], confirmacion.t)
      /\ EsAfirmativo(ultimo'.entrada) )
    => /\ ~ultimo'.res.exito
       /\ glosarios' = glosarios

\* C12: a confirmed ACTUALIZA or ELIMINA of a token that is not in the glossary returns a
\* result with exito = FALSE and leaves the glossary unchanged
C12_AusenteFalla == [][C12_Paso]_vars

\* the number of times token k stands in a batch
Veces(lote, k) == Cardinality({i \in DOMAIN lote : lote[i] = k})

LargoOcurrencias(g, k) == IF HayEntrada(g, k) THEN Len(g.entradas[k].ocurrencias) ELSE 0

\* a step that is a call of fase_a_procesar
C13_Paso ==
    (ultimo'.op = "fase_a_procesar") =>
        LET g == glosarios[CMD]
            g2 == glosarios'[CMD]
            lote == ultimo'.lote
        IN  /\ DOMAIN g2.entradas = DOMAIN g.entradas \cup Rango(lote)
            /\ \A k \in DOMAIN g2.entradas :
                  Len(g2.entradas[k].ocurrencias) = LargoOcurrencias(g, k) + Veces(lote, k)
            /\ \A k \in DOMAIN g.entradas :
                  /\ [g2.entradas[k] EXCEPT !.ocurrencias = <<>>] = [g.entradas[k] EXCEPT !.ocurrencias = <<>>]
                  /\ k \notin Rango(lote) => g2.entradas[k] = g.entradas[k]
            /\ (ultimo.op = "fase_a_procesar" /\ ultimo.lote = lote) =>
                  /\ DOMAIN g2.entradas = DOMAIN g.entradas
                  /\ \A k \in DOMAIN g.entradas :
                        Rango(g2.entradas[k].ocurrencias) = Rango(g.entradas[k].ocurrencias)

\* C13: fase_a_procesar keeps one entry per token: a call adds an entry exactly for the
\* tokens of the batch that had none and lengthens each occurrence list by the number of
\* times the token stands in the batch; a call repeated with the same batch adds no entry
\* and leaves the set of occurrence positions of every token as it was
C13_UnaEntradaPorToken == [][C13_Paso]_vars

\* C13: the same batch was registered twice over
C13_Testigo ==
    /\ ultimo.op = "fase_a_procesar"
    /\ ultimo.lote = <<"nafs", "wa">>
    /\ HayEntrada(glosarios[CMD], "nafs")
    /\ glosarios[CMD].entradas["nafs"].ocurrencias = <<0, 0>>
    /\ HayEntrada(glosarios[CMD], "wa")
    /\ glosarios[CMD].entradas["wa"].ocurrencias = <<1, 1>>

\* a step that is a call of eliminar_entrada: a present token is removed and its number of
\* occurrences returned, an absent one fails, and nothing else changes
C14_PasoEliminar ==
    (ultimo'.op = "eliminar_entrada") =>
        LET g == glosarios[CMD]
            g2 == glosarios'[CMD]
            t == ultimo'.token
        IN  IF HayEntrada(g, t)
            THEN /\ ultimo'.ok
                 /\ ultimo'.n = Len(g.entradas[t].ocurrencias)
                 /\ ~HayEntrada(g2, t)
                 /\ OtrasEntradas(g2, t) = OtrasEntradas(g, t)
                 /\ g2.locuciones = g.locuciones
            ELSE /\ ~ultimo'.ok
                 /\ g2 = g

\* a step that is a lookup (obtener_traduccion) of the token deleted by the call before
C14_PasoLookupFalla ==
    (ultimo'.op = "obtener_traduccion" /\ ultimo'.tras_eliminar) =>
        ultimo'.excepcion = TokenNoRegistradoError

C14_PasoLookupNone ==
    /\ (ultimo'.op = "obtener_traduccion" /\ ultimo'.tras_eliminar) =>
          ultimo'.excepcion = None /\ ultimo'.ret = None
    /\ (ultimo'.op = "fase_b_verificar_existencia" /\ ultimo'.tras_eliminar) =>
          ultimo'.excepcion = TokenNoRegistradoError

C15_Paso ==
    (ultimo'.op = "actualizar_entrada" /\ HayEntrada(glosarios[CMD], ultimo'.token)) =>
        LET g == glosarios[CMD]
            g2 == glosarios'[CMD]
            t == ultimo'.token
        IN  /\ ultimo'.ok
            /\ ultimo'.n = Len(g.entradas[t].ocurrencias)
            /\ HayEntrada(g2, t)
            /\ g2.entradas[t].token_tgt = ultimo'.tgt
            /\ g2.entradas[t].etiqueta = FORZADO_USUARIO
            /\ g2.entradas[t].ocurrencias = g.entradas[t].ocurrencias
            /\ OtrasEntradas(g2, t) = OtrasEntradas(g, t)
            /\ g2.locuciones = g.locuciones
            /\ g2.loc_counter = g.loc_counter

\* C15: actualizar_entrada(t, v) on a registered token sets the target to v whatever the
\* target, the status and the tag were, sets the tag to FORZADO_USUARIO, returns the number
\* of occurrences of t, and leaves the occurrences of t, every other entry and the
\* locutions as they were
C15_ActualizarMarco == [][C15_Paso]_vars

\* C15: a BLOQUEADO entry with another target and two occurrences was updated
C15_Testigo ==
    /\ ultimo.op = "actualizar_entrada"
    /\ ultimo.ok
    /\ ultimo.n = 2
    /\ ultimo.antes.status = BLOQUEADO
    /\ ultimo.antes.token_tgt = "alma"
    /\ ultimo.antes.etiqueta # FORZADO_USUARIO
    /\ glosarios[CMD].locuciones # <<>>

\* a step that is a call of agregar_entrada: it fails on a token that has an entry and
\* leaves the glossary as it was; otherwise it creates the entry
C16_PasoExistente ==
    (ultimo'.op = "agregar_entrada" /\ HayEntrada(glosarios[CMD], ultimo'.token)) =>
        ~ultimo'.ok /\ glosarios' = glosarios

C16_PasoNueva(dado) ==
    (ultimo'.op = "agregar_entrada" /\ ~HayEntrada(glosarios[CMD], ultimo'.token)) =>
        LET g2 == glosarios'[CMD]
            t == ultimo'.token
        IN  /\ ultimo'.ok
            /\ HayEntrada(g2, t)
            /\ g2.entradas[t].token_tgt = ultimo'.tgt
            /\ g2.entradas[t].status = IF dado THEN ASIGNADO ELSE PENDIENTE
            /\ OtrasEntradas(g2, t) = OtrasEntradas(glosarios[CMD], t)

\* C16, as stated: agregar_entrada fails on a token that has an entry (from registration or
\* from an earlier call) and leaves the entry as it was; on an absent token it creates the
\* entry, ASIGNADO when a target is given (not None), PENDIENTE otherwise
C16_AgregarDado == [][C16_PasoExistente /\ C16_PasoNueva(ultimo'.tgt # None)]_vars

\* C16: the same, with the entry ASIGNADO when the target given is not the empty text, and
\* PENDIENTE when no target or the empty text is given
C16_AgregarNoVacio == [][C16_PasoExistente /\ C16_PasoNueva(ultimo'.tgt \notin {None, ""})]_vars

\* C16: agregar_entrada was refused for a token registered by fase_a_procesar, an entry
\* made by agregar_entrada with the empty text being in the glossary
C16_Testigo ==
    /\ ultimo.op = "agregar_entrada"
    /\ ~ultimo.ok
    /\ ultimo.token = "nafs"
    /\ HayEntrada(glosarios[CMD], "nafs")
    /\ glosarios[CMD].entradas["nafs"].ocurrencias # <<>>
    /\ HayEntrada(glosarios[CMD], "wa")
    /\ glosarios[CMD].entradas["wa"].token_tgt = ""
    /\ glosarios[CMD].entradas["wa"].status = PENDIENTE

\* a step that is a call of agregar_locucion on the glossary of the system
C17_Paso ==
    (ultimo'.op = "agregar_locucion" /\ glosarios'[sis] # glosarios[sis]) =>
        LET g == glosarios[sis]
            g2 == glosarios'[sis]
            nueva == g2.locuciones[Len(g2.locuciones)]
        IN  /\ Len(g2.locuciones) = Len(g.locuciones) + 1
            /\ \A j \in DOMAIN g.locuciones :
                  g2.locuciones[j] = g.locuciones[j] /\ g.locuciones[j].id # nueva.id
            /\ nueva.src = ultimo'.loc.src
            /\ nueva.tgt = ultimo'.loc.tgt
            /\ nueva.posiciones = ultimo'.loc.posiciones
            /\ DOMAIN g2.entradas = DOMAIN g.entradas
            /\ \A k \in DOMAIN g.entradas :
                  IF k \in Rango(nueva.componentes)
                  THEN g2.entradas[k] = [g.entradas[k] EXCEPT !.status = BLOQUEADO]
                  ELSE g2.entradas[k] = g.entradas[k]

\* C17: every call of agregar_locucion adds a locution whose identifier is that of no
\* locution the glossary holds, keeps every locution it holds, and sets the status of every
\* component that has an entry to BLOQUEADO
C17_LocucionNueva == [][C17_Paso]_vars

\* C17: a second locution was registered, and an ASSIGNED component of it became BLOQUEADO
C17_Testigo ==
    /\ ultimo.op = "agregar_locucion"
    /\ Len(glosarios[sis].locuciones) = 2
    /\ glosarios[sis].locuciones[1].id # glosarios[sis].locuciones[2].id
    /\ \E k \in Rango(glosarios[sis].locuciones[2].componentes) :
          /\ HayEntrada(glosarios[sis], k)
          /\ glosarios[sis].entradas[k].status = BLOQUEADO
          /\ glosarios[sis].entradas[k].etiqueta = AUTO_NEOLOGISMO

\* position p (0-based) is a member position of a locution attached to the matrix
Cubierta(m, p) == \E j \in DOMAIN m.locuciones : p \in Rango(m.locuciones[j].posiciones)

\* C18: when procesar_oracion has returned, a slot covered by a locution is BLOQUEADO and
\* every other slot, core or particle, having been resolved, is ASIGNADO
C18_EstadoDeSlots ==
    \A i \in DOMAIN Oraciones : \A p \in DOMAIN Oraciones[i].mtx_s.celdas :
        LET r == Oraciones[i]
            slot == r.mtx_s.celdas[p].slot
        IN  IF Cubierta(r.mtx_s, p - 1)
            THEN slot.status = BLOQUEADO
            ELSE Verdadero(r.mtx_t.celdas[p].token_tgt) => slot.status = ASIGNADO

\* what the fixed table gives for a token: a function of the token alone
DeLaTabla(token) ==
    IF Lower(token) \in DOMAIN dic_particulas THEN dic_particulas[Lower(token)] ELSE token

\* C19: for every particle slot that is not BLOQUEADO, the target cell at the slot's position
\* holds the value of the fixed table for the lower-cased token or, the token not being in
\* the table, the source token unchanged: a value fixed by the token alone, whatever the
\* position, the neighbours and the glossary
C19_ParticulaPorTabla ==
    \A i \in DOMAIN Oraciones : \A p \in DOMAIN Oraciones[i].mtx_s.celdas :
        LET r == Oraciones[i]
            slot == r.mtx_s.celdas[p].slot
        IN  (slot.clase = "P" /\ slot.status # BLOQUEADO)
                => r.mtx_t.celdas[p].token_tgt = DeLaTabla(slot.token_src)

\* C19: one translation gave "y" for "wa" and for "Wa", both heading a sentence and not
\* blocked, the glossary holding no target for either
C19_Testigo ==
    /\ Len(Oraciones) = 2
    /\ \A i \in {1, 2} :
          /\ Oraciones[i].mtx_s.celdas[1].slot.clase = "P"
          /\ Oraciones[i].mtx_s.celdas[1].slot.status # BLOQUEADO
          /\ Oraciones[i].mtx_t.celdas[1].token_tgt = "y"
    /\ Oraciones[1].mtx_s.celdas[1].slot.token_src = "wa"
    /\ Oraciones[2].mtx_s.celdas[1].slot.token_src = "Wa"
    /\ glosarios[sis].entradas["wa"].token_tgt = None
    /\ glosarios[sis].entradas["Wa"].token_tgt = None

\* C19: "wa" gave "y" in a slot that is not blocked while its glossary entry is BLOQUEADO
C19_TestigoGlosarioBloqueado ==
    /\ Len(Oraciones) = 1
    /\ Oraciones[1].tokens # <<>>
    /\ Oraciones[1].mtx_s.celdas[1].slot.clase = "P"
    /\ Oraciones[1].mtx_s.celdas[1].slot.status # BLOQUEADO
    /\ Oraciones[1].mtx_s.celdas[1].slot.token_src = "wa"
    /\ Oraciones[1].mtx_t.celdas[1].token_tgt = "y"
    /\ glosarios[sis].entradas["wa"].status = BLOQUEADO

\* C19: a particle that the table does not hold went through unchanged, between two cores
C19_TestigoSinTabla ==
    \E i \in DOMAIN Oraciones : \E p \in DOMAIN Oraciones[i].mtx_s.celdas :
        /\ Oraciones[i].mtx_s.celdas[p].slot.clase = "P"
        /\ Oraciones[i].mtx_s.celdas[p].slot.status # BLOQUEADO
        /\ Oraciones[i].mtx_s.celdas[p].slot.token_src = "huwa"
        /\ Oraciones[i].mtx_t.celdas[p].token_tgt = "huwa"

\* resolving the slot at position p (0-based) of sentence i failed in the last translation:
\* the resolver raised, or it returned no target
FalloEn(i, p) ==
    \/ ultimo.fallo.oracion = i /\ ultimo.fallo.pos = p
    \/ /\ i \in DOMAIN ultimo.oraciones
       /\ \E j \in DOMAIN ultimo.oraciones[i].huellas :
             /\ ultimo.oraciones[i].huellas[j].pos = p
             /\ ~Verdadero(ultimo.oraciones[i].huellas[j].token_tgt)

Posiciones(o) == 0..(Len(o) - 1)

HuboFallo ==
    /\ ultimo.op = "traducir"
    /\ ~ultimo.pausado
    /\ \E i \in DOMAIN ultimo.texto : \E p \in Posiciones(ultimo.texto[i]) : FalloEn(i, p)

\* C20: when resolving one slot of a sentence fails (the resolver raises or returns no
\* target), the translation does not abort: no exception leaves it and every sentence is
\* processed, the failed position is rendered as the bracketed source token, every other
\* slot that no locution covers has its target, and the targets the glossary was given for
\* the sentences before are still in it
C20_SinAbortar ==
    HuboFallo =>
        /\ ultimo.excepcion = None
        /\ Len(ultimo.oraciones) = Len(ultimo.texto)
        /\ \A i \in DOMAIN ultimo.oraciones : \A p \in Posiciones(ultimo.texto[i]) :
              LET r == ultimo.oraciones[i] IN
              IF FalloEn(i, p)
              THEN Item(r.mtx_t.celdas[p + 1]) = Corchetes(r.tokens[p + 1])
              ELSE ~Cubierta(r.mtx_s, p) => Verdadero(r.mtx_t.celdas[p + 1].token_tgt)
        /\ \A i \in DOMAIN ultimo.oraciones : \A j \in DOMAIN ultimo.oraciones[i].huellas :
              LET h == ultimo.oraciones[i].huellas[j] IN
              h.restart => /\ HayEntrada(glosarios[sis], h.token)
                           /\ glosarios[sis].entradas[h.token].token_tgt = h.token_tgt

\* what C21 says of a step of procesar, difiere(a, b) telling when a proposal a differs from
\* the glossary target b
C21_Paso(difiere(_, _)) ==
    ultimo'.op = "procesar" =>
        /\ glosario_db' = glosario_db
        /\ Len(ultimo'.matriz_tokens) = Len(ultimo'.raw_data)
        /\ \A i \in DOMAIN ultimo'.raw_data :
              LET t == ultimo'.matriz_tokens[i]
                  propuesta == ultimo'.raw_data[i].target_propuesto
                  k == Lower(Strip(ultimo'.raw_data[i].source))
              IN  IF k \in DOMAIN glosario_db
                  THEN /\ t.target_final = glosario_db[k].target
                       /\ t.status = CONFLICTO <=>
                              (propuesta # "" /\ difiere(propuesta, glosario_db[k].target))
                  ELSE /\ t.status = PENDIENTE
                       /\ t.target_final = propuesta

DifiereExacto(a, b) == a # b
DifiereSinCaja(a, b) == Lower(a) # Lower(b)

\* C21 as stated: in registrar_o_validar a token whose source has a glossary entry gets the
\* glossary target as final target and is tagged CONFLICTO exactly when the proposal is not
\* empty and differs from the glossary target; a token without entry stays PENDIENTE with the
\* proposal as final target; the glossary is not modified
C21_ConflictoSiDifiere == [][C21_Paso(DifiereExacto)]_vars

\* C21 as amended: the same, the proposal and the glossary target being compared without
\* regard to letter case
C21_ConflictoSinCaja == [][C21_Paso(DifiereSinCaja)]_vars

\* C21: one answer was validated against an entry stored under another spelling of the key:
\* a proposal that differs got CONFLICTO, one that differs in letter case only did not, and
\* both got the glossary target
C21_Testigo ==
    /\ ultimo.op = "procesar"
    /\ Len(ultimo.matriz_tokens) = 2
    /\ "nafs" \in DOMAIN glosario_db
    /\ glosario_db["nafs"].target = "alma"
    /\ ultimo.matriz_tokens[1].source = " Nafs"
    /\ ultimo.matriz_tokens[1].target_propuesto = "animo"
    /\ ultimo.matriz_tokens[1].status = CONFLICTO
    /\ ultimo.matriz_tokens[1].target_final = "alma"
    /\ ultimo.matriz_tokens[2].target_propuesto = "Alma"
    /\ ultimo.matriz_tokens[2].status = ASIGNADO
    /\ ultimo.matriz_tokens[2].target_final = "alma"

\* C21: a token whose source has no entry was left PENDIENTE with its proposal
C21_TestigoSinEntrada ==
    /\ ultimo.op = "procesar"
    /\ Len(ultimo.matriz_tokens) = 1
    /\ glosario_db = <<>>
    /\ ultimo.matriz_tokens[1].target_propuesto = "animo"
    /\ ultimo.matriz_tokens[1].status = PENDIENTE
    /\ ultimo.matriz_tokens[1].target_final = "animo"

\* the token -> target map rebuilt from an export
Reconstruir(j) == [k \in DOMAIN j |-> PyDe(j[k].tgt)]

\* m is the token -> target mapping of g: same keys, same target per key, and no target for
\* an entry that is PENDIENTE
EsMapaDe(m, g) ==
    /\ DOMAIN m = DOMAIN g.entradas
    /\ \A k \in DOMAIN g.entradas :
          /\ m[k] = g.entradas[k].token_tgt
          /\ g.entradas[k].status = PENDIENTE => ~Verdadero(m[k])

\* the last call was the command EXPORTAR_GLOSARIO, nothing being pending
Exportado ==
    /\ ultimo.op = "comando"
    /\ ultimo.pendiente = NoAccion
    /\ MapeoAlias(ultimo.entrada.cab) = "EXPORTAR_GLOSARIO"

C22_Paso ==
    /\ \A i \in 1..2 : EsMapaDe(Reconstruir(ExportarJson(glosarios'[i])), glosarios'[i])
    /\ Exportado' => /\ glosarios' = glosarios
                     /\ EsMapaDe(Reconstruir(ultimo'.res.datos), glosarios[CMD])

\* C22: in every reachable state the map rebuilt from the JSON export of a glossary is its
\* token -> target mapping (same keys, same target per key, no target for a PENDIENTE entry),
\* and the export command leaves the glossary as it was
C22_IdaYVuelta == [][C22_Paso]_vars

\* no two keys of d are equal when letter case is ignored
SinClavesRepetidas(d) == \A k1, k2 \in DOMAIN d : Lower(k1) = Lower(k2) => k1 = k2

\* C23: glossary keys are case-normalized: two spellings of a token that differ in letter
\* case only address one entry, so no glossary ever holds two entries whose keys are equal
\* when letter case is ignored
C23_ClavesNormalizadas ==
    /\ \A i \in 1..2 : SinClavesRepetidas(glosarios[i].entradas)
    /\ SinClavesRepetidas(glosario_db)

\* C24: the difficult-case resolver called with COLLISION and a ranked list that is not
\* empty returns the first candidate of the list; with NO_ROOT it returns the transliterated
\* token followed by the suffix; with IDIOM the transliteration alone; and the call changes
\* nothing of the glossary
C24_Paso ==
    ultimo'.op = "caso_dificil" =>
        /\ (ultimo'.reason = "COLLISION" /\ ultimo'.candidatos # <<>>)
               => ultimo'.ret.n_base = ultimo'.candidatos[1]
        /\ ultimo'.reason = "NO_ROOT" => ultimo'.ret.n_base = Transliterar(ultimo'.token) \o "-ado"
        /\ ultimo'.reason = "IDIOM" => ultimo'.ret.n_base = Transliterar(ultimo'.token)
        /\ glosarios' = glosarios

C24_CasoDificil == [][C24_Paso]_vars

\* sequence a is the beginning of sequence b
Comienzo(a, b) == Len(a) <= Len(b) /\ \A j \in DOMAIN a : a[j] = b[j]

\* the step is a confirmed REINICIAR: glossary object 2 is a new object after it
PasoReinicio == confirmacion.tipo = "REINICIAR" /\ ultimo'.op = "comando" /\ EsAfirmativo(ultimo'.entrada)

\* the step deletes the entry of k from glossary object i
PasoElimina(i, k) ==
    /\ i = CMD
    /\ \/ /\ confirmacion.tipo = "ELIMINA"
          /\ confirmacion.t = k
          /\ ultimo'.op = "comando"
          /\ EsAfirmativo(ultimo'.entrada)
       \/ /\ ultimo'.op = "eliminar_entrada"
          /\ ultimo'.token = k

C25_Paso ==
    \A i \in 1..2 :
        (i = 2 /\ PasoReinicio) \/
        \A k \in DOMAIN glosarios[i].entradas :
            IF k \in DOMAIN glosarios'[i].entradas
            THEN Comienzo(glosarios[i].entradas[k].ocurrencias, glosarios'[i].entradas[k].ocurrencias)
            ELSE PasoElimina(i, k)

\* C25: in every step the occurrence list of every entry of a glossary either is kept with
\* positions appended at its end, or goes with the whole entry in a confirmed ELIMINA (or a
\* call of eliminar_entrada) of its token; no other operation removes or rewrites a recorded
\* occurrence
C25_OcurrenciasSoloCrecen == [][C25_Paso]_vars

\* C25: the entry of nafs, with two recorded occurrences, was just removed by a confirmed
\* ELIMINA while another entry keeps the two occurrences it was given by two translations
C25_Testigo ==
    /\ ultimo.op = "comando"
    /\ ultimo.pendiente.tipo = "ELIMINA"
    /\ ultimo.pendiente.t = "nafs"
    /\ EsAfirmativo(ultimo.entrada)
    /\ ~HayEntrada(glosarios[CMD], "nafs")
    /\ HayEntrada(glosarios[CMD], "kitab")
    /\ glosarios[CMD].entradas["kitab"].ocurrencias = <<1, 1>>

\* C26: in every source matrix built by traducir a slot is BLOQUEADO exactly when its
\* position is a member position of a locution attached to the matrix; when procesar_oracion
\* has returned, a blocked position holds no resolver output (its slot has no target, no
\* resolver was called for it, and its target cell is of type locucion or absorbido) and the
\* target cell of a position that is not blocked is of neither type
C26_BloqueadoSiCubierto ==
    \A i \in DOMAIN Oraciones : \A q \in DOMAIN Oraciones[i].mtx_s.celdas :
        LET r == Oraciones[i]
            slot == r.mtx_s.celdas[q].slot
            celda_t == r.mtx_t.celdas[q]
        IN  /\ slot.status = BLOQUEADO <=> Cubierta(r.mtx_s, q - 1)
            /\ slot.status = BLOQUEADO =>
                  /\ celda_t.tipo \in {"locucion", "absorbido"}
                  /\ slot.token_tgt = None
                  /\ \A j \in DOMAIN r.huellas : r.huellas[j].pos # q - 1
            /\ slot.status # BLOQUEADO => celda_t.tipo \notin {"locucion", "absorbido"}

\* C26: a sentence of three tokens had a two-position locution attached: its two positions
\* are blocked, one cell of type locucion and one absorbido, and the third position is not
\* blocked and holds what its resolver gave
C26_Testigo ==
    \E i \in DOMAIN Oraciones :
        LET r == Oraciones[i] IN
        /\ Len(r.tokens) = 3
        /\ Len(r.mtx_s.locuciones) = 1
        /\ r.mtx_s.locuciones[1].posiciones = <<1, 2>>
        /\ r.mtx_s.celdas[2].slot.status = BLOQUEADO
        /\ r.mtx_s.celdas[3].slot.status = BLOQUEADO
        /\ r.mtx_t.celdas[2].tipo = "locucion"
        /\ r.mtx_t.celdas[3].tipo = "absorbido"
        /\ r.mtx_s.celdas[1].slot.status # BLOQUEADO
        /\ r.mtx_t.celdas[1].tipo = "normal"
        /\ r.mtx_t.celdas[1].token_tgt = "y"

\* the commands that only read: the five that show something and every first word that is
\* no command
SoloLectura(cmd) ==
    \/ cmd \in {"GLOSARIO", "LOCUCIONES", "ESTADO", "AYUDA", "EXPORTAR_GLOSARIO"}
    \/ cmd \notin NombresComandos

LecturasDeGlosario ==
    {"obtener_traduccion", "fase_b_verificar_existencia", "fase_b_verificar_bloqueo"}

C27_Paso ==
    /\ ultimo'.op \in LecturasDeGlosario =>
          /\ glosarios' = glosarios
          /\ confirmacion' = confirmacion
    /\ (ultimo'.op = "comando" /\ confirmacion = NoAccion
            /\ SoloLectura(MapeoAlias(ultimo'.entrada.cab))) =>
          /\ glosarios' = glosarios
          /\ confirmacion' = NoAccion
          /\ ~ultimo'.res.requiere_confirmacion
          /\ MapeoAlias(ultimo'.entrada.cab) \notin NombresComandos => ~ultimo'.res.exito

\* C27: with no confirmation pending, obtener_traduccion, fase_b_verificar_existencia,
\* fase_b_verificar_bloqueo and the commands GLOSARIO, LOCUCIONES, ESTADO, AYUDA and
\* EXPORTAR_GLOSARIO leave the entries, the locutions and the pending confirmation as they
\* were; so does a command that is not known, whose result is a failure
C27_LecturasNoCambian == [][C27_Paso]_vars

\* C27: a command that is not known was just refused, with nothing pending, on a glossary
\* that holds an entry and a locution
C27_Testigo ==
    /\ ultimo.op = "comando"
    /\ ultimo.pendiente = NoAccion
    /\ MapeoAlias(ultimo.entrada.cab) \notin NombresComandos
    /\ ~ultimo.res.exito
    /\ confirmacion = NoAccion
    /\ HayEntrada(glosarios[CMD], "nafs")
    /\ glosarios[CMD].locuciones # <<>>

\* C27: the lookup of a token that is not registered returned None and registered nothing
C27_TestigoLectura ==
    /\ ultimo.op = "obtener_traduccion"
    /\ ultimo.ret = None
    /\ ~HayEntrada(glosarios[CMD], ultimo.token)
    /\ DOMAIN glosarios[CMD].entradas # {}

\* C27: fase_b_verificar_bloqueo returned the id of a locution
C27_TestigoBloqueo ==
    /\ ultimo.op = "fase_b_verificar_bloqueo"
    /\ ultimo.ret = 1
    /\ confirmacion = NoAccion

\* the step is the confirmed ACTUALIZA or ELIMINA of token k
PasoActualizaOElimina(k) ==
    /\ confirmacion # NoAccion
    /\ confirmacion.tipo \in {"ACTUALIZA", "ELIMINA"}
    /\ confirmacion.t = k
    /\ ultimo'.op = "comando"
    /\ EsAfirmativo(ultimo'.entrada)

\* the core tokens whose entry holds a target forced by a confirmed ACTUALIZA
Forzados(g) ==
    {k \in DOMAIN g.entradas :
        g.entradas[k].categoria = NUCLEO /\ g.entradas[k].etiqueta = FORZADO_USUARIO}

C28_Paso ==
    \A k \in Forzados(glosarios[CMD]) :
        LET v == glosarios[CMD].entradas[k].token_tgt IN
        PasoActualizaOElimina(k) \/
        /\ ObtenerTraduccion(glosarios'[CMD], k) = v
        /\ (sis = CMD /\ ultimo'.op = "traducir" /\ ~ultimo'.pausado) =>
              \A i \in DOMAIN ultimo'.oraciones :
                  \A q \in DOMAIN ultimo'.oraciones[i].mtx_s.celdas :
                      LET slot == ultimo'.oraciones[i].mtx_s.celdas[q].slot IN
                      (slot.token_src = k /\ slot.status # BLOQUEADO) =>
                          ultimo'.oraciones[i].mtx_t.celdas[q].token_tgt = v

\* C28: a core token whose target was forced by a confirmed ACTUALIZA keeps that target in
\* every step that is not a confirmed ACTUALIZA or ELIMINA of it, whatever the status of its
\* entry, and a translation renders each of its occurrences that is not blocked as that
\* target
C28_ForzadoPersiste == [][C28_Paso]_vars

\* locution l is applied to sentence r at position p (counted from 1): its components are
\* the tokens from p on, their slots are blocked, the cell at p holds the value of the
\* locution and the cells of the other components are absorbed
AplicadaEn(r, l, p) ==
    LET n == Len(l.componentes) IN
    /\ \A c \in 1..n :
          /\ r.tokens[p + c - 1] = l.componentes[c]
          /\ r.mtx_s.celdas[p + c - 1].slot.status = BLOQUEADO
    /\ r.mtx_t.celdas[p].tipo = "locucion"
    /\ r.mtx_t.celdas[p].token_tgt = l.tgt
    /\ \A c \in 2..n : r.mtx_t.celdas[p + c - 1].tipo = "absorbido"
    /\ Cardinality({q \in DOMAIN r.salida : r.salida[q] = l.tgt}) = 1

\* C29: a locution registered with the command ANADE_LOCUCION and found in a sentence that
\* is translated is applied to it: the positions of its components are blocked in the source
\* matrix, its value appears once in the output, at the first of them, and the other
\* components are absorbed
C29_LocucionAplicada ==
    \A i \in DOMAIN Oraciones : \A j \in DOMAIN Oraciones[i].mtx_s.locuciones :
        LET r == Oraciones[i]
            l == r.mtx_s.locuciones[j]
        IN  \E p \in 1..(Len(r.tokens) - Len(l.componentes) + 1) : AplicadaEn(r, l, p)

\* C30: the command processor and the engine work on the same glossary object in every
\* state, and right after a confirmed REINICIAR the glossary each of them sees is empty
C30_MismoGlosario ==
    /\ sis = CMD
    /\ (ultimo.op = "comando" /\ ultimo.pendiente.tipo = "REINICIAR" /\ EsAfirmativo(ultimo.entrada)) =>
          /\ glosarios[CMD] = GlosarioNuevo
          /\ glosarios[sis] = GlosarioNuevo

\* C31: after every operation the progress state of the system has
\* 0 <= oraciones_traducidas <= total_oraciones, the percentage shown is between 0 and 100
\* and is 0 when total_oraciones is 0, and after a translation of k >= 1 sentences both
\* counters are k
C31_Progreso ==
    LET e == estados[sis] IN
    /\ 0 <= e.oraciones_traducidas
    /\ e.oraciones_traducidas <= e.total_oraciones
    /\ Progreso(e) \in 0..100
    /\ e.total_oraciones = 0 => Progreso(e) = 0
    /\ (EnTraduccion /\ Len(ultimo.texto) >= 1) =>
          /\ e.oraciones_traducidas = Len(ultimo.texto)
          /\ e.total_oraciones = Len(ultimo.texto)

\* the step is the command cmd, taken while nothing is pending
PasoComando(cmd) ==
    /\ ultimo'.op = "comando"
    /\ confirmacion = NoAccion
    /\ MapeoAlias(ultimo'.entrada.cab) = cmd

C32_Paso ==
    /\ PasoComando("PAUSA") =>
          /\ estados'[sis'].pausado
          /\ ultimo'.res.exito /\ ~ultimo'.res.requiere_confirmacion
          /\ confirmacion' = NoAccion
    /\ PasoComando("CONTINUAR") =>
          /\ ~estados'[sis'].pausado
          /\ ultimo'.res.exito /\ ~ultimo'.res.requiere_confirmacion
          /\ confirmacion' = NoAccion
    /\ (estados[sis].pausado /\ ~PasoComando("CONTINUAR") /\ ~PasoReinicio) =>
          estados'[sis'].pausado
    /\ (~estados[sis].pausado /\ ~PasoComando("PAUSA")) => ~estados'[sis'].pausado
    /\ (ultimo'.op = "traducir" /\ estados[sis].pausado) =>
          /\ ultimo'.pausado
          /\ glosarios' = glosarios
          /\ estados' = estados
    /\ (ultimo'.op = "traducir" /\ ~estados[sis].pausado) =>
          /\ ~ultimo'.pausado
          /\ estados'[sis].total_oraciones = Len(ultimo'.texto)
          /\ Len(ultimo'.oraciones) = Len(ultimo'.texto)

\* C32: PAUSA and CONTINUAR act at once and ask for no confirmation; the system stays
\* paused from a PAUSA until a CONTINUAR or a confirmed REINICIAR, and while it is paused a
\* call of traducir returns the paused marker and leaves the glossaries and the progress
\* state as they were; when it is not paused, as after CONTINUAR, traducir translates
C32_PausaYContinuar == [][C32_Paso]_vars

\* C32: a call of traducir with a text of one sentence just returned the paused marker, on
\* a system that had translated before
C32_Testigo ==
    /\ ultimo.op = "traducir"
    /\ ultimo.pausado
    /\ Len(ultimo.texto) = 1
    /\ estados[sis].pausado
    /\ estados[sis].total_oraciones = 1
    /\ DOMAIN glosarios[sis].entradas # {}

\* C32: CONTINUAR was just taken, nothing being pending, on a system that holds entries,
\* and the system is not paused
C32_TestigoContinuar ==
    /\ ultimo.op = "comando"
    /\ ultimo.pendiente = NoAccion
    /\ MapeoAlias(ultimo.entrada.cab) = "CONTINUAR"
    /\ ~estados[sis].pausado
    /\ DOMAIN glosarios[sis].entradas # {}

\* C33: after the approve action every token of the matrix that was PENDIENTE or CONFLICTO
\* is ASIGNADO, and the final target of every ASIGNADO token of the matrix is the target
\* glosario_db now holds for its source, lower-cased and trimmed, also when a source is in
\* the matrix several times
C33_AprobadoSegunGlosario ==
    ultimo.op = "aprobar" =>
        \A i \in DOMAIN ctx_actual :
            /\ ultimo.antes[i] \in {PENDIENTE, CONFLICTO} => ctx_actual[i].status = ASIGNADO
            /\ ctx_actual[i].status = ASIGNADO =>
                  /\ HayEnDb(glosario_db, ctx_actual[i].source)
                  /\ ctx_actual[i].target_final = BuscarToken(glosario_db, ctx_actual[i].source).target

====
